---- MODULE Spec2Model ----
(***************************************************************************)
(* Response resolution pipeline of yt-video-clipper (src/ai_analyzer.py):  *)
(* call_openrouter_api extracts the assistant's content from the provider  *)
(* envelope, strips a markdown fence, decodes JSON or falls back to the    *)
(* text parser; analyze_transcript checks the payload's structure and      *)
(* validates the candidates with the pydantic models Segment and           *)
(* VideoTranscript, salvaging candidate by candidate on a validation error.*)
(*                                                                         *)
(* Five more parts of the repository are modelled, each with its own       *)
(* next-state relation over the same variables:                            *)
(*   SpecMain        parse_text_response and parse_segments_manually of    *)
(*                   src/main.py, the sibling text parser;                 *)
(*   SpecClips       generate_all_clips of src/video_processor.py;         *)
(*   SpecTranscript  get_transcript_with_fallback of                       *)
(*                   src/youtube_handler.py;                               *)
(*   SpecOrganize    organize_clip_for_platforms of src/output_manager.py; *)
(*   SpecDownload    download_youtube_video of src/youtube_handler.py,     *)
(*                   with weak fairness of its steps.                      *)
(*                                                                         *)
(* Values are tagged records, one tag per Python type:                     *)
(*   [null |-> TRUE]  [bool |-> b]  [num |-> n]  [str |-> s]               *)
(*   [text |-> lines]                                                      *)
(*   [list |-> seq]   [obj |-> function from keys to values]               *)
(* A "text" is a Python str held as the sequence of its lines.             *)
(* Times are whole seconds.                                                *)
(***************************************************************************)
EXTENDS Integers, Sequences, FiniteSets, TLC

\* ------------------------------------------------------------------ bounds
MaxSegs == 3      \* longest 'segments' list in a decoded payload
MaxBlocks == 2    \* most labelled blocks in a free-text answer
MaxClips == 2     \* longest list handed to generate_all_clips
MaxCalls == 2     \* calls of one function in one process
MaxSources == 2   \* most transcripts YouTube lists for a video
MaxPlatforms == 2 \* longest platform list handed to organize_clip_for_platforms
MaxRetries == 3   \* largest max_retries given to download_youtube_video

\* ------------------------------------------------------------ JSON values
Null == [null |-> TRUE]
Num(n) == [num |-> n]
Str(s) == [str |-> s]
Text(ls) == [text |-> ls]
Lst(q) == [list |-> q]
Obj(f) == [obj |-> f]
EmptyDict == [k \in {} |-> Null]

Bool(b) == [bool |-> b]
IsNull(v) == "null" \in DOMAIN v
IsBool(v) == "bool" \in DOMAIN v
IsNum(v) == "num" \in DOMAIN v
IsStr(v) == "str" \in DOMAIN v \/ "text" \in DOMAIN v
IsList(v) == "list" \in DOMAIN v
IsObj(v) == "obj" \in DOMAIN v

\* Python truth value of a decoded value (`if not x`, `x and ...`)
Truthy(v) ==
    IF IsNull(v) THEN FALSE
    ELSE IF IsBool(v) THEN v.bool
    ELSE IF IsNum(v) THEN v.num # 0
    ELSE IF "str" \in DOMAIN v THEN v.str # ""
    ELSE IF "text" \in DOMAIN v THEN Len(v.text) > 0
    ELSE IF IsList(v) THEN Len(v.list) > 0
    ELSE DOMAIN v.obj # {}

\* dict.get(key): the value, or None when the key is absent
Get(d, key) == IF key \in DOMAIN d.obj THEN d.obj[key] ELSE Null

\* d without key
Without(d, key) == Obj([k \in DOMAIN d.obj \ {key} |-> d.obj[k]])

\* d with key bound to v
With(d, key, v) ==
    Obj([k \in DOMAIN d.obj \cup {key} |-> IF k = key THEN v ELSE d.obj[k]])

\* ------------------------------------------------- Segment (pydantic model)
SupportedPlatforms == <<"TikTok", "YouTube_Shorts", "Instagram_Reels">>

RequiredFields ==
    {"start_time", "end_time", "duration", "yt_title", "hook", "description"}

\* strings pydantic coerces to a float
NumericStr == ("40" :> 40)

FloatOk(v) == IsNum(v) \/ ("str" \in DOMAIN v /\ v.str \in DOMAIN NumericStr)
ToFloat(v) == IF IsNum(v) THEN v.num ELSE NumericStr[v.str]
StrOk(v) == "str" \in DOMAIN v
ListStrOk(v) == IsList(v) /\ \A i \in 1..Len(v.list) : StrOk(v.list[i])
StrList(v) == [i \in 1..Len(v.list) |-> v.list[i].str]

\* a Segment model whose platforms field has no default
SegmentValidPlatformsRequired(c) ==
    /\ IsObj(c)
    /\ RequiredFields \cup {"platforms"} \subseteq DOMAIN c.obj
    /\ FloatOk(c.obj["start_time"])
    /\ FloatOk(c.obj["end_time"])
    /\ FloatOk(c.obj["duration"])
    /\ StrOk(c.obj["yt_title"])
    /\ StrOk(c.obj["hook"])
    /\ StrOk(c.obj["description"])
    /\ ListStrOk(c.obj["platforms"])
    /\ ("hashtags" \in DOMAIN c.obj => ListStrOk(c.obj["hashtags"]))

\* Segment(**c) raises no ValidationError
SegmentValid(c) ==
    /\ IsObj(c)
    /\ RequiredFields \subseteq DOMAIN c.obj
    /\ FloatOk(c.obj["start_time"])
    /\ FloatOk(c.obj["end_time"])
    /\ FloatOk(c.obj["duration"])
    /\ StrOk(c.obj["yt_title"])
    /\ StrOk(c.obj["hook"])
    /\ StrOk(c.obj["description"])
    /\ ("platforms" \in DOMAIN c.obj => ListStrOk(c.obj["platforms"]))
    /\ ("hashtags" \in DOMAIN c.obj => ListStrOk(c.obj["hashtags"]))

\* the Segment built from a valid candidate
MkSegment(c) ==
    [start_time |-> ToFloat(c.obj["start_time"]),
     end_time |-> ToFloat(c.obj["end_time"]),
     duration |-> ToFloat(c.obj["duration"]),
     yt_title |-> c.obj["yt_title"].str,
     hook |-> c.obj["hook"].str,
     description |-> c.obj["description"].str,
     platforms |-> IF "platforms" \in DOMAIN c.obj
                   THEN StrList(c.obj["platforms"]) ELSE SupportedPlatforms,
     hashtags |-> IF "hashtags" \in DOMAIN c.obj
                  THEN StrList(c.obj["hashtags"]) ELSE << >>]

\* VideoTranscript(segments=cs) raises no ValidationError
VideoTranscriptValid(cs) == \A i \in 1..Len(cs) : SegmentValid(cs[i])
VideoTranscript(cs) == [segments |-> [i \in 1..Len(cs) |-> MkSegment(cs[i])]]

\* a salvage loop that one bad candidate aborts
SalvageAllOrNothing(cs) ==
    IF \A i \in 1..Len(cs) : SegmentValid(cs[i])
    THEN [i \in 1..Len(cs) |-> MkSegment(cs[i])] ELSE << >>

\* the salvage loop: one candidate at a time, errors swallowed per candidate
RECURSIVE Salvage(_)
Salvage(cs) ==
    IF cs = << >> THEN << >>
    ELSE LET c == Head(cs)
             keep == /\ IsObj(c)
                     /\ RequiredFields \subseteq DOMAIN c.obj
                     /\ SegmentValid(c)
         IN (IF keep THEN <<MkSegment(c)>> ELSE << >>) \o Salvage(Tail(cs))

\* ------------------------------------------------------------------- text
\* A line of text is a token; the text is its lines joined by newlines.
FenceLine(tag) == [t |-> "fence", tag |-> tag]          \* three backticks, then tag
JsonLine(v) == [t |-> "json", v |-> v]                  \* well-formed JSON of v
BadJsonLine(a, z) == [t |-> "badjson", first |-> a, last |-> z]
BlankLine == [t |-> "blank"]
FreeLine(s) == [t |-> "free", s |-> s]                  \* no colon in it
BoundaryLine(w, n, title) == [t |-> "boundary", word |-> w, n |-> n, title |-> title]
KvLine(key, s) == [t |-> "kv", key |-> key, s |-> s]    \* key: s
ListLine(key, items) == [t |-> "kvlist", key |-> key, items |-> items]
\* key: g1:g2:g3[.0][s]   (no groups: a word without digits)
TimeLine(key, g, frac, s) == [t |-> "time", key |-> key, g |-> g, frac |-> frac, sfx |-> s]
DurLine(n, unit) == [t |-> "dur", n |-> n, unit |-> unit]  \* Duration: n unit

FirstChar(l) ==
    IF l.t = "json"
    THEN (IF IsObj(l.v) THEN "{" ELSE IF IsList(l.v) THEN "[" ELSE
          IF IsStr(l.v) THEN "quote" ELSE IF IsNum(l.v) THEN "digit" ELSE "n")
    ELSE IF l.t = "badjson" THEN l.first
    ELSE IF l.t = "fence" THEN "tick"
    ELSE "letter"

LastChar(l) ==
    IF l.t = "json"
    THEN (IF IsObj(l.v) THEN "}" ELSE IF IsList(l.v) THEN "]" ELSE
          IF IsStr(l.v) THEN "quote" ELSE IF IsNum(l.v) THEN "digit" ELSE "l")
    ELSE IF l.t = "badjson" THEN l.last
    ELSE IF l.t = "fence" THEN (IF l.tag = "" THEN "tick" ELSE "letter")
    ELSE "letter"

\* str.strip() at the granularity of lines
RECURSIVE LStrip(_)
LStrip(ls) ==
    IF ls # << >> /\ Head(ls).t = "blank" THEN LStrip(Tail(ls)) ELSE ls
RECURSIVE RStrip(_)
RStrip(ls) ==
    IF ls # << >> /\ ls[Len(ls)].t = "blank"
    THEN RStrip(SubSeq(ls, 1, Len(ls) - 1)) ELSE ls
Strip(ls) == RStrip(LStrip(ls))

\* 'segments' in s, for a str s (substring test)
MentionsSegments(ls) ==
    \E i \in 1..Len(ls) : ls[i].t = "free" /\ ls[i].s = "the segments follow"

\* re.search for: three backticks, optional json, newline, body, newline,
\* three backticks (DOTALL, IGNORECASE):
\* the leftmost opening line, then the nearest closing line that leaves a body
IsOpener(l) == l.t = "fence" /\ l.tag \in {"", "json"}
IsCloser(l) == l.t = "fence"
FenceAt(ls, i) ==
    /\ IsOpener(ls[i])
    /\ \E j \in (i + 2)..Len(ls) : IsCloser(ls[j])
FenceFound(ls) == \E i \in 1..Len(ls) : FenceAt(ls, i)
FenceBody(ls) ==
    LET i == CHOOSE a \in 1..Len(ls) :
                 FenceAt(ls, a) /\ \A b \in 1..(a - 1) : ~FenceAt(ls, b)
        j == CHOOSE a \in (i + 2)..Len(ls) :
                 IsCloser(ls[a]) /\ \A b \in (i + 2)..(a - 1) : ~IsCloser(ls[b])
    IN SubSeq(ls, i + 1, j - 1)

\* a classification that takes only an object for JSON
LooksLikeJsonObject(ls) ==
    /\ ls # << >>
    /\ FirstChar(ls[1]) = "{" /\ LastChar(ls[Len(ls)]) = "}"

\* startswith('{') and endswith('}'), or startswith('[') and endswith(']')
LooksLikeJson(ls) ==
    /\ ls # << >>
    /\ \/ FirstChar(ls[1]) = "{" /\ LastChar(ls[Len(ls)]) = "}"
       \/ FirstChar(ls[1]) = "[" /\ LastChar(ls[Len(ls)]) = "]"

\* json.loads(s): a single well-formed document, else JSONDecodeError
JsonLoadsOk(ls) == Len(ls) = 1 /\ ls[1].t = "json"
JsonLoads(ls) == ls[1].v

\* ---------------------------------------------------- text-fallback parser
\* key.strip().lower().replace(' ', '_')
NormKey(key) ==
    CASE key = "Title" -> "title"
      [] key = "Start" -> "start"
      [] key = "Start Time" -> "start_time"
      [] key = "End" -> "end"
      [] key = "Duration" -> "duration"
      [] key = "Hook" -> "hook"
      [] key = "Description" -> "description"
      [] key = "Platforms" -> "platforms"
      [] key = "Hashtags" -> "hashtags"
      [] OTHER -> "other"

\* the five time alternatives of the pattern, each followed by an optional s
RegexTimeMatches(l) ==
    LET n == Len(l.g) IN
    \/ n = 1 /\ l.frac                 \* digits.digits
    \/ n = 3                           \* d:d:d.d  and  d:d:d
    \/ n = 2 /\ ~l.frac /\ l.sfx       \* d:ds
    \/ n = 1 /\ ~l.frac /\ l.sfx       \* ds

\* the captured group keeps the s only in the alternatives that spell it
CapturedHasS(l) == ~l.frac /\ Len(l.g) \in {1, 2} /\ l.sfx

\* float(m) raises ValueError for a colon-delimited value with a fraction
RegexTimeRaises(l) == l.frac /\ Len(l.g) > 1

Weights == <<3600, 60, 1>>
RECURSIVE WeightedSum(_, _, _)
WeightedSum(l, k, n) ==
    IF k > n THEN 0
    ELSE (IF k = Len(l.g) /\ CapturedHasS(l) THEN 0 ELSE Weights[k] * l.g[k])
         + WeightedSum(l, k + 1, n)

\* float(m) if '.' in m else sum(x * int(t) for x, t in zip(...) if t.isdigit())
RegexTimeValue(l) ==
    IF l.frac THEN l.g[1]
    ELSE WeightedSum(l, 1, IF Len(l.g) < 3 THEN Len(l.g) ELSE 3)

IsSubtopic(l) == l.t = "boundary" /\ l.word = "Subtopic" /\ l.title # ""

RegexMatchAt(ls, i) ==
    /\ i + 4 <= Len(ls)
    /\ IsSubtopic(ls[i])
    /\ ls[i + 1].t = "kv" /\ ls[i + 1].key = "Title"
    /\ ls[i + 2].t = "time" /\ ls[i + 2].key = "Start" /\ RegexTimeMatches(ls[i + 2])
    /\ ls[i + 3].t = "time" /\ ls[i + 3].key = "End" /\ RegexTimeMatches(ls[i + 3])
    /\ ls[i + 4].t = "dur" /\ ls[i + 4].unit = "seconds"

DefaultPlatforms ==
    Lst(<<Str("TikTok"), Str("YouTube_Shorts"), Str("Instagram_Reels")>>)

RegexCandidate(ls, i) ==
    Obj([yt_title |-> Str(ls[i + 1].s),
         start_time |-> Num(RegexTimeValue(ls[i + 2])),
         end_time |-> Num(RegexTimeValue(ls[i + 3])),
         duration |-> Num(ls[i + 4].n),
         hook |-> Str("Hook not extracted by regex"),
         description |-> Str(ls[i].title),
         platforms |-> DefaultPlatforms,
         hashtags |-> Lst(<< >>)])

\* pattern.findall(text): non-overlapping matches, left to right
RECURSIVE RegexMatches(_, _)
RegexMatches(ls, i) ==
    IF i > Len(ls) THEN << >>
    ELSE IF RegexMatchAt(ls, i) THEN <<i>> \o RegexMatches(ls, i + 5)
    ELSE RegexMatches(ls, i + 1)

\* the loop over the matches; a match whose conversion raises is skipped
RECURSIVE RegexSegments(_, _)
RegexSegments(ls, ms) ==
    IF ms = << >> THEN << >>
    ELSE LET i == Head(ms)
             raises == RegexTimeRaises(ls[i + 2]) \/ RegexTimeRaises(ls[i + 3])
         IN (IF raises THEN << >> ELSE <<RegexCandidate(ls, i)>>)
            \o RegexSegments(ls, Tail(ms))

Put(d, key, v) == [k \in DOMAIN d \cup {key} |-> IF k = key THEN v ELSE d[k]]

RECURSIVE StripHashes(_)
StripHashes(items) ==
    IF items = << >> THEN << >>
    ELSE (IF Head(items) \in {"", "#"} THEN << >>
          ELSE <<Str(IF Head(items) = "#x" THEN "x" ELSE Head(items))>>)
         \o StripHashes(Tail(items))

\* line.lower().startswith("subtopic") or line.lower().startswith("segment")
StartsSegment(l) ==
    \/ l.t = "boundary"
    \/ l.t = "kv" /\ l.key \in {"Segment summary"}

\* one line of the scan: acc.segs the candidates so far, acc.cur the accumulator
ManualLine(acc, l) ==
    IF l.t = "blank" THEN acc
    ELSE IF l.t = "boundary" THEN
        [segs |-> IF DOMAIN acc.cur # {} THEN Append(acc.segs, acc.cur) ELSE acc.segs,
         cur |-> IF l.title # "" THEN Put(EmptyDict, "yt_title", Str(l.title))
                 ELSE EmptyDict]
    ELSE IF StartsSegment(l) THEN        \* a key: value line taken for a boundary
        [segs |-> IF DOMAIN acc.cur # {} THEN Append(acc.segs, acc.cur) ELSE acc.segs,
         cur |-> Put(EmptyDict, "yt_title", Str(l.s))]
    ELSE IF l.t = "kv" THEN
        LET key == NormKey(l.key) IN
        IF key \in {"title", "yt_title"}
        THEN [acc EXCEPT !.cur = Put(acc.cur, "yt_title", Str(l.s))]
        ELSE IF key \in {"hook", "description"}
        THEN [acc EXCEPT !.cur = Put(acc.cur, key, Str(l.s))]
        ELSE acc
    ELSE IF l.t = "time" THEN
        LET key == NormKey(l.key) IN
        IF l.g = << >> THEN acc          \* re.findall(...)[0] raises IndexError
        ELSE IF key \in {"start", "start_time"}
        THEN [acc EXCEPT !.cur = Put(acc.cur, "start_time", Num(l.g[1]))]
        ELSE IF key \in {"end", "end_time"}
        THEN [acc EXCEPT !.cur = Put(acc.cur, "end_time", Num(l.g[1]))]
        ELSE acc
    ELSE IF l.t = "dur" THEN
        IF l.unit \in {"seconds", "s"}   \* the number must be followed by an s
        THEN [acc EXCEPT !.cur = Put(acc.cur, "duration", Num(l.n))]
        ELSE acc
    ELSE IF l.t = "kvlist" THEN
        LET key == NormKey(l.key) IN
        IF key = "platforms"
        THEN [acc EXCEPT !.cur = Put(acc.cur, "platforms",
                  IF l.items = << >> THEN Lst(<<Str("")>>)   \* ''.split(',')
                  ELSE Lst([i \in 1..Len(l.items) |-> Str(l.items[i])]))]
        ELSE IF key = "hashtags"
        THEN [acc EXCEPT !.cur = Put(acc.cur, "hashtags", Lst(StripHashes(l.items)))]
        ELSE acc
    ELSE acc                             \* no key: value shape, or unknown key

\* a scan that the first line to raise brings to an end
RECURSIVE ManualScanAbort(_, _)
ManualScanAbort(acc, ls) ==
    IF ls = << >> THEN acc
    ELSE IF Head(ls).t = "free" \/ (Head(ls).t = "time" /\ Head(ls).g = << >>)
    THEN acc
    ELSE ManualScanAbort(ManualLine(acc, Head(ls)), Tail(ls))

RECURSIVE ManualScan(_, _)
ManualScan(acc, ls) ==
    IF ls = << >> THEN acc ELSE ManualScan(ManualLine(acc, Head(ls)), Tail(ls))

\* the post-processing loop: compute a missing duration, require the six fields
RECURSIVE PostProcess(_)
PostProcess(segs) ==
    IF segs = << >> THEN << >>
    ELSE LET seg == Head(segs)
             s1 == IF {"start_time", "end_time"} \subseteq DOMAIN seg
                      /\ "duration" \notin DOMAIN seg
                   THEN Put(seg, "duration",
                            Num(seg["end_time"].num - seg["start_time"].num))
                   ELSE seg
             s2 == IF "platforms" \notin DOMAIN s1
                   THEN Put(s1, "platforms", DefaultPlatforms) ELSE s1
             s3 == IF "hashtags" \notin DOMAIN s2
                   THEN Put(s2, "hashtags", Lst(<< >>)) ELSE s2
         IN (IF RequiredFields \subseteq DOMAIN s1 THEN <<Obj(s3)>> ELSE << >>)
            \o PostProcess(Tail(segs))

_parse_segments_manually(ls) ==
    LET acc == ManualScan([segs |-> << >>, cur |-> EmptyDict], ls)
        segs == IF DOMAIN acc.cur # {} THEN Append(acc.segs, acc.cur) ELSE acc.segs
    IN PostProcess(segs)

\* the candidates of the regex tier
RegexTierSegments(ls) == RegexSegments(ls, RegexMatches(ls, 1))

\* the manual tier run whenever the pattern found no match
ManualTierRunsOnNoMatch(ls) == RegexMatches(ls, 1) = << >>

\* if not segments: the manual tier runs
ManualTierRuns(ls) == RegexTierSegments(ls) = << >>

\* the tiers one call of parse_ai_text_response runs, in order
TiersRun(ls) == IF ManualTierRuns(ls) THEN <<"regex", "manual">> ELSE <<"regex">>

parse_ai_text_response(ls) ==
    LET segments == IF ManualTierRuns(ls) THEN _parse_segments_manually(ls)
                    ELSE RegexTierSegments(ls)
    IN IF segments # << >> THEN Obj([segments |-> Lst(segments)]) ELSE Null

\* ----------------------------------------------------------------- inputs
GoodA ==
    Obj([start_time |-> Num(10), end_time |-> Num(40), duration |-> Num(30),
         yt_title |-> Str("A"), hook |-> Str("H"), description |-> Str("D"),
         platforms |-> Lst(<<Str("TikTok")>>), hashtags |-> Lst(<<Str("#x")>>)])
GoodB ==
    Obj([start_time |-> Num(50), end_time |-> Num(70), duration |-> Num(20),
         yt_title |-> Str("B"), hook |-> Str("H"), description |-> Str("D")])

\* candidates a decoded 'segments' list may hold
Candidates ==
    {GoodA, GoodB}
    \cup {Without(GoodA, k) : k \in {"start_time", "hook", "duration"}}
    \cup {With(GoodA, "start_time", Str("abc")),
          With(GoodA, "end_time", Str("40")),
          With(GoodA, "platforms", Lst(<< >>)),
          With(GoodA, "end_time", Num(5)),
          With(GoodA, "end_time", Num(10)),
          With(GoodA, "duration", Num(7)),
          Num(5)}

RECURSIVE SeqsUpTo(_, _)
SeqsUpTo(S, n) ==
    IF n = 0 THEN {<< >>}
    ELSE LET shorter == SeqsUpTo(S, n - 1)
         IN shorter \cup {Append(q, x) : q \in shorter, x \in S}

RECURSIVE Flatten(_)
Flatten(bs) == IF bs = << >> THEN << >> ELSE Head(bs) \o Flatten(Tail(bs))

\* labelled blocks of a free-text answer
Blocks ==
    { <<BoundaryLine("Subtopic", 1, "Cool bit"), KvLine("Title", "Cool"),
        TimeLine("Start", <<5>>, TRUE, FALSE), TimeLine("End", <<20>>, TRUE, FALSE),
        DurLine(15, "seconds")>>,
      <<BoundaryLine("Subtopic", 1, "Cool bit"), KvLine("Title", "Cool bit"),
        TimeLine("Start", <<5>>, FALSE, FALSE), TimeLine("End", <<20>>, FALSE, FALSE),
        DurLine(15, "seconds")>>,
      <<BoundaryLine("Subtopic", 2, "Long one"), KvLine("Title", "Long"),
        TimeLine("Start", <<0, 1, 5>>, FALSE, FALSE),
        TimeLine("End", <<0, 1, 5>>, TRUE, FALSE), DurLine(30, "seconds")>>,
      <<BoundaryLine("Segment", 1, ""), KvLine("Title", "T"),
        TimeLine("Start", <<5>>, FALSE, FALSE), TimeLine("End", <<20>>, FALSE, TRUE),
        KvLine("Hook", "H"), KvLine("Description", "D")>>,
      <<BoundaryLine("Segment", 2, "U"), TimeLine("Start Time", <<30>>, FALSE, FALSE),
        TimeLine("End", <<25>>, FALSE, FALSE), DurLine(9, ""),
        KvLine("Hook", "H"), KvLine("Description", "D"),
        ListLine("Platforms", <<"TikTok">>), ListLine("Hashtags", <<"#x", "">>)>>,
      <<BoundaryLine("Subtopic", 3, "Timed"), KvLine("Title", "Timed"),
        TimeLine("Start", <<1, 5>>, FALSE, TRUE), TimeLine("End", <<90>>, FALSE, TRUE),
        DurLine(25, "seconds")>>,
      <<BoundaryLine("Segment", 3, ""), KvLine("Title", "V"),
        TimeLine("Start", <<5>>, FALSE, FALSE), TimeLine("End", <<20>>, FALSE, FALSE),
        KvLine("Segment summary", "x"),
        KvLine("Hook", "H"), KvLine("Description", "D")>>,
      <<BoundaryLine("Segment", 4, ""), KvLine("Title", "W"),
        FreeLine("and now the times"), TimeLine("Start", << >>, FALSE, FALSE),
        TimeLine("Start", <<5>>, FALSE, FALSE), KvLine("Note", "n"),
        TimeLine("End", <<20>>, FALSE, FALSE),
        KvLine("Hook", "H"), KvLine("Description", "D")>>,
      <<FreeLine("not json and not matching any pattern")>>,
      <<FreeLine("the segments follow"), BlankLine>> }

Texts == {Flatten(bs) : bs \in SeqsUpTo(Blocks, MaxBlocks)}

\* documents the strict decoder can return
Payloads == {Obj([segments |-> Lst(cs)]) : cs \in SeqsUpTo(Candidates, MaxSegs)}
OtherDocs ==
    {Obj(EmptyDict), Obj([foo |-> Num(1)]), Obj([segments |-> Str("x")]),
     Obj([segments |-> Null]),
     Lst(<< >>), Lst(<<Num(1)>>), Lst(<<Str("segments")>>),
     Text(<< >>), Text(<<FreeLine("hello")>>), Text(<<FreeLine("the segments follow")>>),
     Text(<<BoundaryLine("Segment", 1, ""), KvLine("Title", "T"),
            TimeLine("Start", <<5>>, FALSE, FALSE), TimeLine("End", <<20>>, FALSE, TRUE),
            KvLine("Hook", "H"), KvLine("Description", "D")>>),
     Num(0), Num(5), Bool(TRUE), Bool(FALSE), Null}
JsonDocs == Payloads \cup OtherDocs

\* content strings of the assistant's message
Contents ==
    {<<JsonLine(d)>> : d \in JsonDocs}
    \cup {<<FenceLine(tag), JsonLine(d), FenceLine("")>> :
            tag \in {"", "json"}, d \in JsonDocs}
    \cup {<<FreeLine("Here you go"), FenceLine("json"),
            JsonLine(Obj([segments |-> Lst(<<GoodA>>)])), FenceLine(""), BlankLine>>}
    \cup {<<BlankLine, JsonLine(d), BlankLine>> : d \in OtherDocs}
    \cup {<<BadJsonLine("{", "}")>>, <<BadJsonLine("[", "]")>>,
          <<BadJsonLine("{", ",")>>,
          <<FenceLine("json"), BadJsonLine("{", "}"), FenceLine("")>>,
          <<FenceLine("json"), FenceLine("")>>,
          <<FenceLine("python"), JsonLine(Obj([segments |-> Lst(<<GoodA>>)])), FenceLine("")>>,
          <<JsonLine(Obj([segments |-> Lst(<<GoodA>>)])), JsonLine(Obj([segments |-> Lst(<<GoodB>>)]))>>}
    \cup (Texts \ {<< >>})
    \cup {<<FenceLine("")>> \o tx \o <<FenceLine("")>> : tx \in Texts \ {<< >>}}

Envelope(content) ==
    Obj([choices |-> Lst(<<Obj([message |-> Obj([content |-> content])])>>)])

Envelopes ==
    {Envelope(Text(c)) : c \in Contents}
    \cup {Obj(EmptyDict), Obj([choices |-> Lst(<< >>)]), Obj([choices |-> Null]),
          Obj([choices |-> Str("x")]), Obj([choices |-> Obj([a |-> Num(1)])]),
          Obj([choices |-> Lst(<<Obj(EmptyDict)>>)]),
          Obj([choices |-> Lst(<<Obj([message |-> Obj(EmptyDict)])>>)]),
          Obj([choices |-> Lst(<<Obj([message |-> Obj([role |-> Str("assistant")])])>>)]),
          Obj([choices |-> Lst(<<Str("x")>>)]),
          Obj([choices |-> Lst(<<Obj([message |-> Str("x")])>>)]),
          Lst(<<Num(1)>>),
          Envelope(Text(<< >>)), Envelope(Null), Envelope(Num(5))}

\* ------------------------------------------------------------------ state
VARIABLES
    pc,                     \* position in analyze_transcript / call_openrouter_api
    response_data,          \* the provider's envelope
    actual_content_string,  \* message.content as extracted
    content_to_parse,       \* the working text handed to json.loads
    api_response_data,      \* what call_openrouter_api returned
    result,                 \* what analyze_transcript returned
    json_loads_calls,       \* number of json.loads calls of this invocation
    fallback_calls,         \* arguments of the parse_ai_text_response calls
    tier_log,               \* decoder and parser tiers run by this invocation
    run,                    \* "first", or how the second invocation was fed
    first_run,              \* outcome of the first invocation
    reject_log              \* the warnings logged for candidates not salvaged

\* src/main.py, parse_text_response
VARIABLES
    main_pc,                \* position in parse_text_response
    main_text,              \* its argument
    segments_found,         \* the regex matches or the manual tuples
    main_result             \* the dict it returned

\* src/video_processor.py, generate_all_clips
VARIABLES
    clip_pc,                \* position in generate_all_clips
    _ffmpeg_checked,        \* module global
    _ffmpeg_present,        \* module global
    segments_data,          \* the caller's list of dicts, as it is now
    given_segments,         \* the same list as it was when the call was made
    processed_segments_info,\* the list the loop builds
    clips_result,           \* what generate_all_clips returned
    clip_calls,             \* calls made into the module so far
    ffmpeg_log              \* the calls of check_ffmpeg_installed, in order

\* src/youtube_handler.py, get_transcript_with_fallback
VARIABLES
    yt_pc,                  \* which priority loop is running
    transcript_list,        \* the transcripts YouTube lists for the video
    yt_index,               \* position in the running loop
    consulted,              \* the sources fetched so far, in order
    transcript_result       \* what get_transcript_with_fallback returned

\* src/output_manager.py, organize_clip_for_platforms
VARIABLES
    org_pc,                 \* position in organize_clip_for_platforms
    org_args,               \* whether the base clip exists, and segment_platforms
    org_env,                \* what makedirs, symlink and copy2 do in this process
    platform_dirs,          \* the platform directories that exist
    placed,                 \* what lies at each platform-specific path
    org_index,              \* position in the loop over the target platforms
    organized_paths,        \* the list the loop builds
    org_made,               \* symlinks and copies made by the running call
    org_returns             \* what each call returned, and how many it made

\* src/youtube_handler.py, download_youtube_video
VARIABLES
    dl_pc,                  \* position in download_youtube_video
    max_retries,            \* its argument
    attempt,                \* the loop variable
    dl_log,                 \* the outcome of each attempt made, in order
    dl_result               \* what download_youtube_video returned

pipeline_vars ==
    <<pc, response_data, actual_content_string, content_to_parse,
      api_response_data, result, json_loads_calls, fallback_calls,
      tier_log, run, first_run, reject_log>>
main_vars == <<main_pc, main_text, segments_found, main_result>>
clip_vars ==
    <<clip_pc, _ffmpeg_checked, _ffmpeg_present, segments_data, given_segments,
      processed_segments_info, clips_result, clip_calls, ffmpeg_log>>
yt_vars == <<yt_pc, transcript_list, yt_index, consulted, transcript_result>>

org_vars ==
    <<org_pc, org_args, org_env, platform_dirs, placed, org_index,
      organized_paths, org_made, org_returns>>
dl_vars == <<dl_pc, max_retries, attempt, dl_log, dl_result>>

vars == <<pipeline_vars, main_vars, clip_vars, yt_vars, org_vars, dl_vars>>

Pending == [status |-> "pending"]
ReturnedNone == [status |-> "None"]
Returned(vt) == [status |-> "ok", transcript |-> vt]
Raised == [status |-> "raised"]

NoRun == [result |-> Pending, rejected |-> {}]

PipelineIdle ==
    /\ pc = "idle"
    /\ response_data = Null
    /\ actual_content_string = << >>
    /\ content_to_parse = << >>
    /\ api_response_data = Null
    /\ result = Pending
    /\ json_loads_calls = 0
    /\ fallback_calls = << >>
    /\ tier_log = << >>
    /\ run = "first"
    /\ first_run = NoRun
    /\ reject_log = << >>

\* analyze_transcript with an empty transcript_text
AnalyzeEmptyTranscript ==
    /\ pc = "idle"
    /\ pc' = "done"
    /\ result' = ReturnedNone
    /\ UNCHANGED <<response_data, actual_content_string, content_to_parse,
                   api_response_data, json_loads_calls, fallback_calls>>
    /\ UNCHANGED <<tier_log, run, first_run, reject_log>>
    /\ UNCHANGED <<main_vars, clip_vars, yt_vars, org_vars, dl_vars>>

\* call_openrouter_api without an API key, or the request raising
CallFails ==
    /\ pc = "idle"
    /\ pc' = "check"
    /\ api_response_data' = Null
    /\ UNCHANGED <<response_data, actual_content_string, content_to_parse,
                   result, json_loads_calls, fallback_calls>>
    /\ UNCHANGED <<tier_log, run, first_run, reject_log>>
    /\ UNCHANGED <<main_vars, clip_vars, yt_vars, org_vars, dl_vars>>

\* response.json() delivers the envelope
ReceiveResponse ==
    /\ pc = "idle"
    /\ \E env \in Envelopes : response_data' = env
    /\ pc' = "extract"
    /\ UNCHANGED <<actual_content_string, content_to_parse, api_response_data,
                   result, json_loads_calls, fallback_calls>>
    /\ UNCHANGED <<tier_log, run, first_run, reject_log>>
    /\ UNCHANGED <<main_vars, clip_vars, yt_vars, org_vars, dl_vars>>

\* a missing content treated as an empty answer instead of a failure
ExtractedContentLenient(env) ==
    IF ~IsObj(env) THEN Null
    ELSE LET choices == Get(env, "choices") IN
    IF ~(Truthy(choices) /\ IsList(choices)) THEN Null
    ELSE LET first_choice == choices.list[1] IN
    IF ~IsObj(first_choice) THEN Null
    ELSE LET message == Get(first_choice, "message") IN
    IF ~Truthy(message) \/ ~IsObj(message) THEN Text(<<BlankLine>>)
    ELSE LET content == Get(message, "content") IN
    IF Truthy(content) /\ "text" \in DOMAIN content THEN content
    ELSE Text(<<BlankLine>>)

\* the content string of the first choice, or Null when the envelope has none
\* (an AttributeError or TypeError on a wrongly typed envelope ends the same)
ExtractedContent(env) ==
    IF ~IsObj(env) THEN Null
    ELSE LET choices == Get(env, "choices") IN
    IF ~(Truthy(choices) /\ IsList(choices)) THEN Null
    ELSE LET first_choice == choices.list[1] IN
    IF ~IsObj(first_choice) THEN Null
    ELSE LET message == Get(first_choice, "message") IN
    IF ~Truthy(message) \/ ~IsObj(message) THEN Null
    ELSE LET content == Get(message, "content") IN
    IF Truthy(content) /\ "text" \in DOMAIN content THEN content ELSE Null

ExtractContent ==
    /\ pc = "extract"
    /\ LET content == ExtractedContent(response_data) IN
       IF IsNull(content)
       THEN /\ pc' = "check"
            /\ api_response_data' = Null
            /\ UNCHANGED actual_content_string
       ELSE /\ pc' = "clean"
            /\ actual_content_string' = content.text
            /\ UNCHANGED api_response_data
    /\ UNCHANGED <<response_data, content_to_parse, result, json_loads_calls,
                   fallback_calls>>
    /\ UNCHANGED <<tier_log, run, first_run, reject_log>>
    /\ UNCHANGED <<main_vars, clip_vars, yt_vars, org_vars, dl_vars>>

\* strip the fence, or classify the bare content
CleanContent ==
    /\ pc = "clean"
    /\ IF FenceFound(actual_content_string)
       THEN /\ content_to_parse' = Strip(FenceBody(actual_content_string))
            /\ pc' = "decode"
       ELSE /\ content_to_parse' = Strip(actual_content_string)
            /\ pc' = IF LooksLikeJson(Strip(actual_content_string))
                     THEN "decode" ELSE "fallback"
    /\ UNCHANGED <<response_data, actual_content_string, api_response_data,
                   result, json_loads_calls, fallback_calls>>
    /\ UNCHANGED <<tier_log, run, first_run, reject_log>>
    /\ UNCHANGED <<main_vars, clip_vars, yt_vars, org_vars, dl_vars>>

\* a decoder that, when the fence body does not decode, tries the whole content
DecodeJsonRetry ==
    /\ pc = "decode"
    /\ json_loads_calls' = json_loads_calls + 1
    /\ tier_log' = Append(tier_log, "json")
    /\ IF JsonLoadsOk(content_to_parse)
       THEN /\ api_response_data' = JsonLoads(content_to_parse)
            /\ pc' = "check"
            /\ UNCHANGED content_to_parse
       ELSE IF content_to_parse # Strip(actual_content_string)
       THEN /\ content_to_parse' = Strip(actual_content_string)
            /\ pc' = "decode"
            /\ UNCHANGED api_response_data
       ELSE /\ pc' = "fallback"
            /\ UNCHANGED <<api_response_data, content_to_parse>>
    /\ UNCHANGED <<response_data, actual_content_string, result, fallback_calls>>
    /\ UNCHANGED <<run, first_run, reject_log>>
    /\ UNCHANGED <<main_vars, clip_vars, yt_vars, org_vars, dl_vars>>

DecodeJson ==
    /\ pc = "decode"
    /\ json_loads_calls' = json_loads_calls + 1
    /\ tier_log' = Append(tier_log, "json")
    /\ IF JsonLoadsOk(content_to_parse)
       THEN /\ api_response_data' = JsonLoads(content_to_parse)
            /\ pc' = "check"
       ELSE /\ pc' = "fallback"
            /\ UNCHANGED api_response_data
    /\ UNCHANGED <<response_data, actual_content_string, content_to_parse,
                   result, fallback_calls>>
    /\ UNCHANGED <<run, first_run, reject_log>>
    /\ UNCHANGED <<main_vars, clip_vars, yt_vars, org_vars, dl_vars>>

\* the fallback handed the working text instead of the original content
FallbackParseWorkingText ==
    /\ pc = "fallback"
    /\ fallback_calls' = Append(fallback_calls, content_to_parse)
    /\ tier_log' = tier_log \o TiersRun(content_to_parse)
    /\ api_response_data' = parse_ai_text_response(content_to_parse)
    /\ pc' = "check"
    /\ UNCHANGED <<response_data, actual_content_string, content_to_parse,
                   result, json_loads_calls>>
    /\ UNCHANGED <<run, first_run, reject_log>>
    /\ UNCHANGED <<main_vars, clip_vars, yt_vars, org_vars, dl_vars>>

\* return parse_ai_text_response(actual_content_string)
FallbackParse ==
    /\ pc = "fallback"
    /\ fallback_calls' = Append(fallback_calls, actual_content_string)
    /\ tier_log' = tier_log \o TiersRun(actual_content_string)
    /\ api_response_data' = parse_ai_text_response(actual_content_string)
    /\ pc' = "check"
    /\ UNCHANGED <<response_data, actual_content_string, content_to_parse,
                   result, json_loads_calls>>
    /\ UNCHANGED <<run, first_run, reject_log>>
    /\ UNCHANGED <<main_vars, clip_vars, yt_vars, org_vars, dl_vars>>

\* 'segments' in d
HasSegments(d) ==
    IF IsObj(d) THEN "segments" \in DOMAIN d.obj
    ELSE IF IsList(d) THEN \E i \in 1..Len(d.list) : d.list[i] = Str("segments")
    ELSE MentionsSegments(d.text)

\* the last-chance fallback run on the content for any payload
FinalFallbackArgsAlways(d) ==
    IF IsStr(d) THEN <<d.text>> ELSE <<actual_content_string>>

\* isinstance(api_response_data, str): the texts the last-chance fallback is
\* run on when the payload has no 'segments' list
FinalFallbackArgs(d) == IF IsStr(d) THEN <<d.text>> ELSE << >>

\* the structure check of analyze_transcript
CheckResponse ==
    /\ pc = "check"
    /\ LET d == api_response_data IN
       IF ~Truthy(d)
       THEN /\ result' = ReturnedNone /\ pc' = "done"
            /\ UNCHANGED <<api_response_data, fallback_calls, tier_log>>
       ELSE IF IsNum(d) \/ IsBool(d)        \* 'segments' in 5: TypeError
       THEN /\ result' = Raised /\ pc' = "done"
            /\ UNCHANGED <<api_response_data, fallback_calls, tier_log>>
       ELSE IF HasSegments(d) /\ ~IsObj(d)  \* d['segments'] on a list or str
       THEN /\ result' = Raised /\ pc' = "done"
            /\ UNCHANGED <<api_response_data, fallback_calls, tier_log>>
       ELSE IF HasSegments(d) /\ IsList(d.obj["segments"])
       THEN /\ pc' = "validate"
            /\ UNCHANGED <<api_response_data, result, fallback_calls, tier_log>>
       ELSE IF FinalFallbackArgs(d) # << >>
       THEN LET text == FinalFallbackArgs(d)[1]
                fallback_data == parse_ai_text_response(text)
            IN /\ fallback_calls' = Append(fallback_calls, text)
               /\ tier_log' = tier_log \o TiersRun(text)
               /\ IF Truthy(fallback_data) /\ HasSegments(fallback_data)
                  THEN /\ api_response_data' = fallback_data
                       /\ pc' = "validate"
                       /\ UNCHANGED result
                  ELSE /\ result' = ReturnedNone /\ pc' = "done"
                       /\ UNCHANGED api_response_data
       ELSE /\ result' = ReturnedNone /\ pc' = "done"
            /\ UNCHANGED <<api_response_data, fallback_calls, tier_log>>
    /\ UNCHANGED <<response_data, actual_content_string, content_to_parse,
                   json_loads_calls>>
    /\ UNCHANGED <<run, first_run, reject_log>>
    /\ UNCHANGED <<main_vars, clip_vars, yt_vars, org_vars, dl_vars>>

\* VideoTranscript(segments=...)
Validate ==
    /\ pc = "validate"
    /\ LET cs == api_response_data.obj["segments"].list IN
       IF VideoTranscriptValid(cs)
       THEN /\ result' = Returned(VideoTranscript(cs)) /\ pc' = "done"
       ELSE /\ pc' = "salvage" /\ UNCHANGED result
    /\ UNCHANGED <<response_data, actual_content_string, content_to_parse,
                   api_response_data, json_loads_calls, fallback_calls>>
    /\ UNCHANGED <<tier_log, run, first_run, reject_log>>
    /\ UNCHANGED <<main_vars, clip_vars, yt_vars, org_vars, dl_vars>>

\* the candidates of a 'segments' list that Segment rejects
Rejected(d) ==
    IF IsObj(d) /\ "segments" \in DOMAIN d.obj /\ IsList(d.obj["segments"])
    THEN LET cs == d.obj["segments"].list
         IN {cs[i] : i \in {j \in 1..Len(cs) : ~SegmentValid(cs[j])}}
    ELSE {}

\* the segments an invocation returned
ReturnedSegments(r) == IF r.status = "ok" THEN r.transcript.segments ELSE << >>

\* the warnings of the salvage loop, one for each candidate it does not keep:
\* missing essential fields (the else branch), or the exception Segment(**c)
\* or the membership test raised
RECURSIVE SalvageWarnings(_)
SalvageWarnings(cs) ==
    IF cs = << >> THEN << >>
    ELSE LET c == Head(cs)
             raises == IsNum(c) \/ IsBool(c) \/ IsNull(c)      \* k in 5: TypeError
             complete == IsObj(c) /\ RequiredFields \subseteq DOMAIN c.obj
         IN (IF raises THEN <<[candidate |-> c, warning |-> "Could not salvage"]>>
             ELSE IF ~complete
             THEN <<[candidate |-> c, warning |-> "missing essential fields"]>>
             ELSE IF ~SegmentValid(c)
             THEN <<[candidate |-> c, warning |-> "Could not salvage"]>>
             ELSE << >>)
            \o SalvageWarnings(Tail(cs))

\* a salvage that remembers, across invocations, the segments already returned
SalvageSegmentsOnce ==
    /\ pc = "salvage"
    /\ LET salvaged_segments == Salvage(api_response_data.obj["segments"].list)
           seen == ReturnedSegments(first_run.result)
           fresh == SelectSeq(salvaged_segments,
                              LAMBDA x : \A i \in 1..Len(seen) : seen[i] # x)
       IN result' = IF fresh # << >>
                    THEN Returned([segments |-> fresh])
                    ELSE ReturnedNone
    /\ reject_log' = SalvageWarnings(api_response_data.obj["segments"].list)
    /\ pc' = "done"
    /\ UNCHANGED <<response_data, actual_content_string, content_to_parse,
                   api_response_data, json_loads_calls, fallback_calls>>
    /\ UNCHANGED <<tier_log, run, first_run>>
    /\ UNCHANGED <<main_vars, clip_vars, yt_vars, org_vars, dl_vars>>

\* a salvage that re-runs the text parser when nothing could be salvaged
SalvageThenTextFallback ==
    /\ pc = "salvage"
    /\ LET salvaged_segments == Salvage(api_response_data.obj["segments"].list)
           fallback_data == parse_ai_text_response(actual_content_string)
       IN IF salvaged_segments # << >>
          THEN /\ result' = Returned([segments |-> salvaged_segments])
               /\ UNCHANGED <<fallback_calls, tier_log>>
          ELSE /\ fallback_calls' = Append(fallback_calls, actual_content_string)
               /\ tier_log' = tier_log \o TiersRun(actual_content_string)
               /\ result' = IF IsNull(fallback_data) THEN ReturnedNone
                            ELSE Returned([segments |->
                                   Salvage(fallback_data.obj["segments"].list)])
    /\ reject_log' = SalvageWarnings(api_response_data.obj["segments"].list)
    /\ pc' = "done"
    /\ UNCHANGED <<response_data, actual_content_string, content_to_parse,
                   api_response_data, json_loads_calls>>
    /\ UNCHANGED <<run, first_run>>
    /\ UNCHANGED <<main_vars, clip_vars, yt_vars, org_vars, dl_vars>>

\* a salvage that logs the candidates with missing fields only
SalvageSegmentsQuiet ==
    /\ pc = "salvage"
    /\ LET salvaged_segments == Salvage(api_response_data.obj["segments"].list) IN
       result' = IF salvaged_segments # << >>
                 THEN Returned([segments |-> salvaged_segments])
                 ELSE ReturnedNone
    /\ reject_log' =
         SelectSeq(SalvageWarnings(api_response_data.obj["segments"].list),
                   LAMBDA w : w.warning = "missing essential fields")
    /\ pc' = "done"
    /\ UNCHANGED <<response_data, actual_content_string, content_to_parse,
                   api_response_data, json_loads_calls, fallback_calls>>
    /\ UNCHANGED <<tier_log, run, first_run>>
    /\ UNCHANGED <<main_vars, clip_vars, yt_vars, org_vars, dl_vars>>

\* the except ValidationError branch
SalvageSegments ==
    /\ pc = "salvage"
    /\ LET salvaged_segments == Salvage(api_response_data.obj["segments"].list) IN
       result' = IF salvaged_segments # << >>
                 THEN Returned([segments |-> salvaged_segments])
                 ELSE ReturnedNone
    /\ reject_log' = SalvageWarnings(api_response_data.obj["segments"].list)
    /\ pc' = "done"
    /\ UNCHANGED <<response_data, actual_content_string, content_to_parse,
                   api_response_data, json_loads_calls, fallback_calls>>
    /\ UNCHANGED <<tier_log, run, first_run>>
    /\ UNCHANGED <<main_vars, clip_vars, yt_vars, org_vars, dl_vars>>

\* the content is one JSON document inside a fence, with or without the tag
FencedJson(ls) ==
    /\ Len(ls) = 3
    /\ ls[1].t = "fence" /\ ls[1].tag \in {"", "json"}
    /\ ls[2].t = "json"
    /\ ls[3] = FenceLine("")

\* a new invocation: every local of analyze_transcript and call_openrouter_api
\* starts afresh, the module keeps nothing between calls
Reinvoke(how, env) ==
    /\ pc = "done"
    /\ run = "first"
    /\ run' = how
    /\ first_run' = [result |-> result, rejected |-> Rejected(api_response_data)]
    /\ response_data' = env
    /\ pc' = "extract"
    /\ actual_content_string' = << >>
    /\ content_to_parse' = << >>
    /\ api_response_data' = Null
    /\ result' = Pending
    /\ json_loads_calls' = 0
    /\ fallback_calls' = << >>
    /\ tier_log' = << >>
    /\ reject_log' = << >>
    /\ UNCHANGED <<main_vars, clip_vars, yt_vars, org_vars, dl_vars>>

\* analyze_transcript called a second time, the provider answering the same
RunAgain ==
    /\ ~IsNull(response_data)
    /\ Reinvoke("again", response_data)

\* analyze_transcript called a second time, the provider answering with the
\* document of the first answer unfenced
RunBare ==
    /\ FencedJson(actual_content_string)
    /\ Reinvoke("bare", Envelope(Text(<<actual_content_string[2]>>)))

\* ------------------------------------------- src/main.py: parse_text_response
\* the first line at or after j that is not blank (\s* runs over line ends)
RECURSIVE NonBlankFrom(_, _)
NonBlankFrom(ls, j) ==
    IF j > Len(ls) THEN Len(ls) + 1
    ELSE IF ls[j].t = "blank" THEN NonBlankFrom(ls, j + 1)
    ELSE j

\* label, digits with an optional fraction, nothing else on the line
PlainNumber(l, labels) ==
    l.t = "time" /\ l.key \in labels /\ Len(l.g) = 1 /\ ~l.sfx

\* the Start, End and Duration lines of pattern p from line j on: the index of
\* the Duration line, or 0 (pattern 2 also takes Start Time and End Time)
TripleEnd(ls, j, p) ==
    LET j2 == NonBlankFrom(ls, j + 1)
        j3 == NonBlankFrom(ls, j2 + 1)
    IN IF /\ j <= Len(ls) /\ j3 <= Len(ls)
          /\ PlainNumber(ls[j], IF p = 1 THEN {"Start"} ELSE {"Start", "Start Time"})
          /\ PlainNumber(ls[j2], IF p = 1 THEN {"End"} ELSE {"End", "End Time"})
          /\ ls[j3].t = "dur"
       THEN j3 ELSE 0

\* where a match of pattern p can capture its title from
TitleStart(l, p) ==
    IF p = 1 THEN l.t = "kv" /\ l.key = "Title"
    ELSE l.t = "boundary" /\ l.word = "Subtopic"

\* group 1: the rest of the title line, or with DOTALL everything up to the
\* Start line (held as the lines it runs over)
CapturedTitle(ls, i, j) ==
    IF j = i + 1
    THEN Str(IF ls[i].t = "kv" THEN ls[i].s ELSE ls[i].title)
    ELSE Text(SubSeq(ls, i, j - 1))

Min(S) == CHOOSE x \in S : \A y \in S : x <= y

\* re.finditer(pattern, text, re.DOTALL | re.MULTILINE): leftmost matches with
\* the lazy title group, none overlapping
RECURSIVE PatternMatches(_, _, _)
PatternMatches(ls, from, p) ==
    LET triples == {j \in 1..Len(ls) : TripleEnd(ls, j, p) # 0}
        starts == {i \in from..Len(ls) :
                     TitleStart(ls[i], p) /\ \E j \in triples : j > i}
    IN IF starts = {} THEN << >>
       ELSE LET i == Min(starts)
                j == Min({k \in triples : k > i})
                e == TripleEnd(ls, j, p)
            IN <<[title |-> CapturedTitle(ls, i, j),
                  start_time |-> Num(ls[j].g[1]),
                  end_time |-> Num(ls[NonBlankFrom(ls, j + 1)].g[1]),
                  duration |-> Num(ls[e].n)]>>
               \o PatternMatches(ls, e + 1, p)

\* the loop over the patterns: the first one with a match is used
MainRegexMatches(ls) ==
    IF PatternMatches(ls, 1, 1) # << >> THEN PatternMatches(ls, 1, 1)
    ELSE PatternMatches(ls, 1, 2)

\* the time of a Start or End line: Null when float() raises or no branch applies
MainTime(l) ==
    IF l.sfx \/ l.g = << >> THEN Null
    ELSE IF Len(l.g) = 1 THEN Num(l.g[1])
    ELSE IF Len(l.g) = 2 THEN Num(60 * l.g[1] + l.g[2])
    ELSE IF Len(l.g) = 3 THEN Num(3600 * l.g[1] + 60 * l.g[2] + l.g[3])
    ELSE Null

NoCurrent == [title |-> Null, start_time |-> Null, end_time |-> Null, duration |-> Null]

\* all([current_title, current_start is not None, current_end is not None])
MainComplete(cur) ==
    Truthy(cur.title) /\ ~IsNull(cur.start_time) /\ ~IsNull(cur.end_time)

\* segments.append((title, start, end, duration)), the duration computed if None
MainFlush(segs, cur) ==
    IF MainComplete(cur)
    THEN Append(segs,
                IF IsNull(cur.duration)
                THEN [cur EXCEPT !.duration = Num(cur.end_time.num - cur.start_time.num)]
                ELSE cur)
    ELSE segs

\* one line of parse_segments_manually
MainManualLine(acc, l) ==
    IF l.t = "blank" THEN acc
    ELSE IF l.t = "boundary" THEN
        [segs |-> MainFlush(acc.segs, acc.cur),
         cur |-> [NoCurrent EXCEPT !.title = IF l.title # "" THEN Str(l.title) ELSE Null]]
    ELSE IF l.t = "kv" /\ l.key \in {"Title", "Topic"} /\ l.s # ""
    THEN [acc EXCEPT !.cur.title = Str(l.s)]
    ELSE IF l.t = "time" /\ l.key \in {"Start", "Start Time"} /\ ~IsNull(MainTime(l))
    THEN [acc EXCEPT !.cur.start_time = MainTime(l)]
    ELSE IF l.t = "time" /\ l.key \in {"End", "End Time"} /\ ~IsNull(MainTime(l))
    THEN [acc EXCEPT !.cur.end_time = MainTime(l)]
    ELSE IF l.t = "dur" THEN [acc EXCEPT !.cur.duration = Num(l.n)]
    ELSE acc

RECURSIVE MainManualScan(_, _)
MainManualScan(acc, ls) ==
    IF ls = << >> THEN acc
    ELSE MainManualScan(MainManualLine(acc, Head(ls)), Tail(ls))

parse_segments_manually(ls) ==
    LET acc == MainManualScan([segs |-> << >>, cur |-> NoCurrent], ls)
    IN MainFlush(acc.segs, acc.cur)

MainSegment(found, i) ==
    Obj([start_time |-> found[i].start_time,
         end_time |-> found[i].end_time,
         yt_title |-> found[i].title,
         \* "Extracted segment i from the video featuring: title"
         description |-> [extracted |-> i, featuring |-> found[i].title],
         duration |-> found[i].duration])

\* the segment appended when nothing was parsed
DefaultSegment ==
    Obj([start_time |-> Num(0),
         end_time |-> Num(60),
         yt_title |-> Str("Default segment - Parser could not extract segments"),
         description |-> Str("This is a default segment"),
         duration |-> Num(60)])

MainIdle ==
    /\ main_pc = "idle"
    /\ main_text = << >>
    /\ segments_found = << >>
    /\ main_result = Null

\* parse_text_response(text) is called
MainCall ==
    /\ main_pc = "idle"
    /\ \E text \in Texts : main_text' = text
    /\ main_pc' = "regex"
    /\ UNCHANGED <<segments_found, main_result>>
    /\ UNCHANGED <<pipeline_vars, clip_vars, yt_vars, org_vars, dl_vars>>

\* for pattern in patterns: ... break
MainRegexTier ==
    /\ main_pc = "regex"
    /\ segments_found' = MainRegexMatches(main_text)
    /\ main_pc' = IF MainRegexMatches(main_text) = << >> THEN "manual" ELSE "build"
    /\ UNCHANGED <<main_text, main_result>>
    /\ UNCHANGED <<pipeline_vars, clip_vars, yt_vars, org_vars, dl_vars>>

\* if not segments_found: segments_found = parse_segments_manually(text)
MainManualTier ==
    /\ main_pc = "manual"
    /\ segments_found' = parse_segments_manually(main_text)
    /\ main_pc' = "build"
    /\ UNCHANGED <<main_text, main_result>>
    /\ UNCHANGED <<pipeline_vars, clip_vars, yt_vars, org_vars, dl_vars>>

\* the segment dicts, the default segment when there are none, and the return
MainBuild ==
    /\ main_pc = "build"
    /\ LET segments == [i \in 1..Len(segments_found) |-> MainSegment(segments_found, i)]
       IN main_result' = Obj([segments |->
              Lst(IF segments = << >> THEN <<DefaultSegment>> ELSE segments)])
    /\ main_pc' = "done"
    /\ UNCHANGED <<main_text, segments_found>>
    /\ UNCHANGED <<pipeline_vars, clip_vars, yt_vars, org_vars, dl_vars>>

NextMain ==
    \/ MainCall
    \/ MainRegexTier
    \/ MainManualTier
    \/ MainBuild

\* --------------------------------- src/video_processor.py: generate_all_clips
\* the segment dicts a caller hands over
ClipSegments ==
    {GoodA.obj, GoodB.obj, Without(GoodA, "start_time").obj}
ClipInputs == SeqsUpTo(ClipSegments, MaxClips)

NotReturned == [status |-> "pending", value |-> << >>, is_input |-> FALSE]
\* the returned list; is_input: it is the very list object the caller gave
ReturnedList(v, same) == [status |-> "returned", value |-> v, is_input |-> same]

\* segment['output_clip_path'] = path; segment['clip_generation_status'] = status
Annotate(d, path, status) ==
    Put(Put(d, "output_clip_path", path), "clip_generation_status", Str(status))

AnnotateAll(ds, status) == [i \in 1..Len(ds) |-> Annotate(ds[i], Null, status)]

ClipsIdle ==
    /\ clip_pc = "idle"
    /\ _ffmpeg_checked = FALSE
    /\ _ffmpeg_present = FALSE
    /\ segments_data = << >>
    /\ given_segments = << >>
    /\ processed_segments_info = << >>
    /\ clips_result = NotReturned
    /\ clip_calls = 0
    /\ ffmpeg_log = << >>

\* generate_all_clips(input_video_path, segments_data, safe_video_title)
GenerateAllClips ==
    /\ clip_pc \in {"idle", "done"}
    /\ clip_calls < MaxCalls
    /\ clip_calls' = clip_calls + 1
    /\ \E input \in ClipInputs :
         /\ segments_data' = input
         /\ given_segments' = input
         /\ IF input = << >>
            THEN clips_result' = ReturnedList(<< >>, FALSE) /\ clip_pc' = "done"
            ELSE clips_result' = NotReturned /\ clip_pc' = "probe"
    /\ processed_segments_info' = << >>
    /\ UNCHANGED <<_ffmpeg_checked, _ffmpeg_present, ffmpeg_log>>
    /\ UNCHANGED <<pipeline_vars, main_vars, yt_vars, org_vars, dl_vars>>

\* a check_ffmpeg_installed() that runs the probe at every call
check_ffmpeg_uncached(found) ==
    [checked |-> TRUE,
     present |-> found,
     log |-> Append(ffmpeg_log, [probed |-> TRUE, cached |-> _ffmpeg_present,
                                 returned |-> found])]

\* check_ffmpeg_installed(), the probe answering found if it runs: the globals
\* after the call, and the call added to the log (whether it probed, the flag
\* it had cached, the flag it returned)
check_ffmpeg_installed(found) ==
    [checked |-> TRUE,
     present |-> IF _ffmpeg_checked THEN _ffmpeg_present ELSE found,
     log |-> Append(ffmpeg_log,
                    [probed |-> ~_ffmpeg_checked, cached |-> _ffmpeg_present,
                     returned |-> IF _ffmpeg_checked THEN _ffmpeg_present
                                  ELSE found])]

\* if not check_ffmpeg_installed(): without ffmpeg the caller's dicts are
\* annotated and returned
CheckFfmpegInstalled ==
    /\ clip_pc = "probe"
    /\ \E found \in BOOLEAN :
         LET g == check_ffmpeg_installed(found) IN
         /\ _ffmpeg_checked' = g.checked
         /\ _ffmpeg_present' = g.present
         /\ ffmpeg_log' = g.log
    /\ IF _ffmpeg_present'
       THEN /\ clip_pc' = "mkdir"
            /\ UNCHANGED <<segments_data, clips_result>>
       ELSE /\ segments_data' = AnnotateAll(segments_data, "ffmpeg_not_found")
            /\ clips_result' = ReturnedList(segments_data', TRUE)
            /\ clip_pc' = "done"
    /\ UNCHANGED <<given_segments, processed_segments_info, clip_calls>>
    /\ UNCHANGED <<pipeline_vars, main_vars, yt_vars, org_vars, dl_vars>>

\* os.makedirs(config.CLIPS_DIR) where the directory is missing
MakeClipsDir ==
    /\ clip_pc = "mkdir"
    /\ \E outcome \in {"exists", "created", "oserror"} :
         IF outcome = "oserror"
         THEN /\ segments_data' = AnnotateAll(segments_data, "output_dir_creation_failed")
              /\ clips_result' = ReturnedList(segments_data', TRUE)
              /\ clip_pc' = "done"
         ELSE /\ clip_pc' = "loop"
              /\ UNCHANGED <<segments_data, clips_result>>
    /\ UNCHANGED <<_ffmpeg_checked, _ffmpeg_present, given_segments,
                   processed_segments_info, clip_calls, ffmpeg_log>>
    /\ UNCHANGED <<pipeline_vars, main_vars, yt_vars, org_vars, dl_vars>>

\* generate_clip(...) for segment d with index i: the path it returns (None
\* on failure) and the globals it leaves. It returns None at once when the
\* input video is missing; it calls check_ffmpeg_installed() if no check was
\* made yet; it runs ffmpeg only with ffmpeg present and both times given; a
\* FileNotFoundError of that run marks ffmpeg as absent.
generate_clip(d, i) ==
    LET before == [checked |-> _ffmpeg_checked, present |-> _ffmpeg_present,
                   log |-> ffmpeg_log]
        checks == IF _ffmpeg_checked THEN {before}
                  ELSE {check_ffmpeg_installed(found) : found \in BOOLEAN}
        leaves(g, path) == [clip_path |-> path, checked |-> g.checked,
                            present |-> g.present, log |-> g.log]
        ffmpeg_run(g) ==
            IF \/ ~g.present
               \/ IsNull(Get(Obj(d), "start_time"))
               \/ IsNull(Get(Obj(d), "end_time"))
            THEN {leaves(g, Null)}
            ELSE {leaves(g, [path |-> i]), leaves(g, Null),
                  leaves([g EXCEPT !.present = FALSE], Null)}
    IN {leaves(before, Null)} \cup UNION {ffmpeg_run(g) : g \in checks}

\* one turn of the loop: the copy, generate_clip, the annotations, the append
GenerateClip ==
    /\ clip_pc = "loop"
    /\ Len(processed_segments_info) < Len(segments_data)
    /\ LET i == Len(processed_segments_info) + 1
           segment_info == segments_data[i]         \* segment_info_orig.copy()
       IN \E r \in generate_clip(segment_info, i) :
            /\ processed_segments_info' =
                 Append(processed_segments_info,
                        IF ~IsNull(r.clip_path)
                        THEN Annotate(segment_info, r.clip_path, "success")
                        ELSE Annotate(segment_info, Null, "failed"))
            /\ _ffmpeg_checked' = r.checked
            /\ _ffmpeg_present' = r.present
            /\ ffmpeg_log' = r.log
    /\ UNCHANGED <<clip_pc, segments_data, given_segments, clips_result, clip_calls>>
    /\ UNCHANGED <<pipeline_vars, main_vars, yt_vars, org_vars, dl_vars>>

\* a loop that returns what it has as soon as a clip has failed
ReturnAtFirstFailure ==
    /\ clip_pc = "loop"
    /\ \/ Len(processed_segments_info) = Len(segments_data)
       \/ /\ processed_segments_info # << >>
          /\ processed_segments_info[Len(processed_segments_info)]
                ["clip_generation_status"] = Str("failed")
    /\ clips_result' = ReturnedList(processed_segments_info, FALSE)
    /\ clip_pc' = "done"
    /\ UNCHANGED <<_ffmpeg_checked, _ffmpeg_present, segments_data, given_segments,
                   processed_segments_info, clip_calls, ffmpeg_log>>
    /\ UNCHANGED <<pipeline_vars, main_vars, yt_vars, org_vars, dl_vars>>

\* return processed_segments_info
ReturnProcessed ==
    /\ clip_pc = "loop"
    /\ Len(processed_segments_info) = Len(segments_data)
    /\ clips_result' = ReturnedList(processed_segments_info, FALSE)
    /\ clip_pc' = "done"
    /\ UNCHANGED <<_ffmpeg_checked, _ffmpeg_present, segments_data, given_segments,
                   processed_segments_info, clip_calls, ffmpeg_log>>
    /\ UNCHANGED <<pipeline_vars, main_vars, yt_vars, org_vars, dl_vars>>

\* check_ffmpeg_installed() called from outside the module
CheckFfmpegDirect ==
    /\ clip_pc \in {"idle", "done"}
    /\ clip_calls < MaxCalls
    /\ clip_calls' = clip_calls + 1
    /\ \E found \in BOOLEAN :
         LET g == check_ffmpeg_installed(found) IN
         /\ _ffmpeg_checked' = g.checked
         /\ _ffmpeg_present' = g.present
         /\ ffmpeg_log' = g.log
    /\ UNCHANGED <<clip_pc, segments_data, given_segments,
                   processed_segments_info, clips_result>>
    /\ UNCHANGED <<pipeline_vars, main_vars, yt_vars, org_vars, dl_vars>>

\* generate_clip(...) called from outside the module
GenerateClipDirect ==
    /\ clip_pc \in {"idle", "done"}
    /\ clip_calls < MaxCalls
    /\ clip_calls' = clip_calls + 1
    /\ \E d \in ClipSegments : \E r \in generate_clip(d, 1) :
         /\ _ffmpeg_checked' = r.checked
         /\ _ffmpeg_present' = r.present
         /\ ffmpeg_log' = r.log
    /\ UNCHANGED <<clip_pc, segments_data, given_segments,
                   processed_segments_info, clips_result>>
    /\ UNCHANGED <<pipeline_vars, main_vars, yt_vars, org_vars, dl_vars>>

NextClips ==
    \/ GenerateAllClips
    \/ CheckFfmpegInstalled
    \/ MakeClipsDir
    \/ GenerateClip
    \/ ReturnProcessed
    \/ CheckFfmpegDirect
    \/ GenerateClipDirect

\* ---------------------- src/youtube_handler.py: get_transcript_with_fallback
EnglishCodes == <<"en", "en-US", "en-GB">>
\* the order in which YouTube lists the languages
Languages == <<"en", "en-US", "en-GB", "de", "fr">>

Range(q) == {q[i] : i \in 1..Len(q)}

\* the videos: up to MaxSources listed transcripts each, a transcript being a
\* language and whether it is auto-generated, with what fetch() does for it
\* and whether it can be translated
Videos ==
    LET Listed == [lang : Range(Languages), generated : BOOLEAN]
        Behaviours == [fetch : {"ok", "empty", "raises"}, is_translatable : BOOLEAN]
    IN UNION {[S -> Behaviours] :
                 S \in {T \in SUBSET Listed : Cardinality(T) <= MaxSources}}

Manual(lang) == [lang |-> lang, generated |-> FALSE]
Generated(lang) == [lang |-> lang, generated |-> TRUE]

\* available_langs['manual'] and available_langs['generated'], in listing order
AvailableManual(v) == SelectSeq(Languages, LAMBDA l : Manual(l) \in DOMAIN v)
AvailableGenerated(v) == SelectSeq(Languages, LAMBDA l : Generated(l) \in DOMAIN v)

\* a source as consulted: a listed transcript, fetched as is or translated to en
Source(t, translated) ==
    [lang |-> t.lang, generated |-> t.generated, translated |-> translated]

NoTranscript == [status |-> "pending", data |-> "none", source |-> Null]
\* (standardized_result, description); data "none" and no source for (None, None)
TranscriptReturned(data, source) ==
    [status |-> "returned", data |-> data, source |-> source]

TranscriptIdle ==
    /\ yt_pc = "idle"
    /\ transcript_list = << >>
    /\ yt_index = 1
    /\ consulted = << >>
    /\ transcript_result = NoTranscript

\* get_transcript_with_fallback(video_id)
GetTranscriptWithFallback ==
    /\ yt_pc = "idle"
    /\ \E v \in Videos : transcript_list' = v
    /\ yt_pc' = "english"
    /\ UNCHANGED <<yt_index, consulted, transcript_result>>
    /\ UNCHANGED <<pipeline_vars, main_vars, clip_vars, org_vars, dl_vars>>

\* one turn of the loop over the English codes: the manual transcript of that
\* code, else the auto-generated one; a fetch that raises ends the turn
TryEnglish ==
    /\ yt_pc = "english"
    /\ yt_index <= Len(EnglishCodes)
    /\ LET lang_code == EnglishCodes[yt_index]
           found == IF Manual(lang_code) \in DOMAIN transcript_list
                    THEN <<Manual(lang_code)>>
                    ELSE IF Generated(lang_code) \in DOMAIN transcript_list
                    THEN <<Generated(lang_code)>>
                    ELSE << >>
       IN IF found = << >>
          THEN /\ yt_index' = yt_index + 1
               /\ UNCHANGED <<yt_pc, consulted, transcript_result>>
          ELSE /\ consulted' = Append(consulted, Source(found[1], FALSE))
               /\ IF transcript_list[found[1]].fetch = "raises"
                  THEN /\ yt_index' = yt_index + 1
                       /\ UNCHANGED <<yt_pc, transcript_result>>
                  ELSE /\ transcript_result' =
                            TranscriptReturned(transcript_list[found[1]].fetch,
                                               Source(found[1], FALSE))
                       /\ yt_pc' = "done"
                       /\ UNCHANGED yt_index
    /\ UNCHANGED transcript_list
    /\ UNCHANGED <<pipeline_vars, main_vars, clip_vars, org_vars, dl_vars>>

\* the English loop is over
EnglishExhausted ==
    /\ yt_pc = "english"
    /\ yt_index > Len(EnglishCodes)
    /\ yt_pc' = "manual"
    /\ yt_index' = 1
    /\ UNCHANGED <<transcript_list, consulted, transcript_result>>
    /\ UNCHANGED <<pipeline_vars, main_vars, clip_vars, org_vars, dl_vars>>

\* one turn of a translation loop over the listed transcripts of one kind
TryTranslated(t, skip) ==
    IF skip \/ ~transcript_list[t].is_translatable
    THEN /\ yt_index' = yt_index + 1
         /\ UNCHANGED <<yt_pc, consulted, transcript_result>>
    ELSE /\ consulted' = Append(consulted, Source(t, TRUE))
         /\ IF transcript_list[t].fetch = "ok"
            THEN /\ transcript_result' = TranscriptReturned("ok", Source(t, TRUE))
                 /\ yt_pc' = "done"
                 /\ UNCHANGED yt_index
            ELSE /\ yt_index' = yt_index + 1
                 /\ UNCHANGED <<yt_pc, transcript_result>>

\* priority 2: a manual transcript other than 'en', translated to English
TryManualTranslated ==
    /\ yt_pc = "manual"
    /\ yt_index <= Len(AvailableManual(transcript_list))
    /\ LET lang == AvailableManual(transcript_list)[yt_index]
       IN TryTranslated(Manual(lang), lang = "en")
    /\ UNCHANGED transcript_list
    /\ UNCHANGED <<pipeline_vars, main_vars, clip_vars, org_vars, dl_vars>>

ManualExhausted ==
    /\ yt_pc = "manual"
    /\ yt_index > Len(AvailableManual(transcript_list))
    /\ yt_pc' = "generated"
    /\ yt_index' = 1
    /\ UNCHANGED <<transcript_list, consulted, transcript_result>>
    /\ UNCHANGED <<pipeline_vars, main_vars, clip_vars, org_vars, dl_vars>>

\* priority 3: an auto-generated transcript whose code does not start with
\* 'en', translated to English
TryGeneratedTranslated ==
    /\ yt_pc = "generated"
    /\ yt_index <= Len(AvailableGenerated(transcript_list))
    /\ LET lang == AvailableGenerated(transcript_list)[yt_index]
       IN TryTranslated(Generated(lang), lang \in Range(EnglishCodes))
    /\ UNCHANGED transcript_list
    /\ UNCHANGED <<pipeline_vars, main_vars, clip_vars, org_vars, dl_vars>>

\* return None, None
ReturnNoTranscript ==
    /\ yt_pc = "generated"
    /\ yt_index > Len(AvailableGenerated(transcript_list))
    /\ transcript_result' = TranscriptReturned("none", Null)
    /\ yt_pc' = "done"
    /\ UNCHANGED <<transcript_list, yt_index, consulted>>
    /\ UNCHANGED <<pipeline_vars, main_vars, clip_vars, org_vars, dl_vars>>

NextTranscript ==
    \/ GetTranscriptWithFallback
    \/ TryEnglish
    \/ EnglishExhausted
    \/ TryManualTranslated
    \/ ManualExhausted
    \/ TryGeneratedTranslated
    \/ ReturnNoTranscript

\* ------------------------ src/output_manager.py: organize_clip_for_platforms
\* segment_platforms if segment_platforms else config.SUPPORTED_PLATFORMS
target_platforms ==
    IF org_args.segment_platforms # << >> THEN org_args.segment_platforms
    ELSE SupportedPlatforms

\* organize_clip_for_platforms(base_clip_path, segment_platforms): the first
\* call, which fixes the arguments, the directories that exist and what the
\* file system of this process does, or a later call with the same arguments.
\* A path is held as the platform it lies under.
OrganizeClipForPlatforms ==
    /\ org_pc \in {"idle", "done"}
    /\ Len(org_returns) < MaxCalls
    /\ IF org_pc = "idle"
       THEN /\ \E base_exists \in BOOLEAN :
                 \E ps \in SeqsUpTo({"TikTok", "Instagram_Reels", "Snapchat"},
                                    MaxPlatforms) :
                   org_args' = [base_exists |-> base_exists, segment_platforms |-> ps]
            /\ \E env \in [makedirs_ok : BOOLEAN, symlink_ok : BOOLEAN,
                            copy2 : {"ok", "raises", "raises_after_writing"}] :
                   org_env' = env
            /\ \E dirs \in SUBSET {"TikTok", "Instagram_Reels", "Snapchat"} :
                   platform_dirs' = dirs
       ELSE UNCHANGED <<org_args, org_env, platform_dirs>>
    /\ IF org_args'.base_exists
       THEN org_pc' = "loop" /\ UNCHANGED org_returns
       ELSE /\ org_pc' = "done"                                  \* return []
            /\ org_returns' = Append(org_returns, [paths |-> << >>, made |-> 0])
    /\ org_index' = 1
    /\ organized_paths' = << >>
    /\ org_made' = 0
    /\ UNCHANGED placed
    /\ UNCHANGED <<pipeline_vars, main_vars, clip_vars, yt_vars, dl_vars>>

\* one turn of the loop over the target platforms
OrganizePlatform ==
    /\ org_pc = "loop"
    /\ org_index <= Len(target_platforms)
    /\ LET platform == target_platforms[org_index]
           dir_ok == platform \in platform_dirs \/ org_env.makedirs_ok
       IN /\ platform_dirs' = IF dir_ok THEN platform_dirs \cup {platform}
                               ELSE platform_dirs
          /\ IF ~dir_ok                                 \* continue
             THEN UNCHANGED <<placed, organized_paths, org_made>>
             ELSE IF placed[platform] # "nothing"       \* exists or islink
             THEN /\ organized_paths' = Append(organized_paths, platform)
                  /\ UNCHANGED <<placed, org_made>>
             ELSE IF org_env.symlink_ok
             THEN /\ placed' = [placed EXCEPT ![platform] = "symlink"]
                  /\ organized_paths' = Append(organized_paths, platform)
                  /\ org_made' = org_made + 1
             ELSE IF org_env.copy2 = "ok"
             THEN /\ placed' = [placed EXCEPT ![platform] = "copy"]
                  /\ organized_paths' = Append(organized_paths, platform)
                  /\ org_made' = org_made + 1
             ELSE /\ placed' = IF org_env.copy2 = "raises_after_writing"
                               THEN [placed EXCEPT ![platform] = "leftover"]
                               ELSE placed
                  /\ UNCHANGED <<organized_paths, org_made>>
    /\ org_index' = org_index + 1
    /\ UNCHANGED <<org_pc, org_args, org_env, org_returns>>
    /\ UNCHANGED <<pipeline_vars, main_vars, clip_vars, yt_vars, dl_vars>>

\* return organized_paths
ReturnOrganized ==
    /\ org_pc = "loop"
    /\ org_index > Len(target_platforms)
    /\ org_returns' = Append(org_returns,
                             [paths |-> organized_paths, made |-> org_made])
    /\ org_pc' = "done"
    /\ UNCHANGED <<org_args, org_env, platform_dirs, placed, org_index,
                   organized_paths, org_made>>
    /\ UNCHANGED <<pipeline_vars, main_vars, clip_vars, yt_vars, dl_vars>>

NextOrganize ==
    \/ OrganizeClipForPlatforms
    \/ OrganizePlatform
    \/ ReturnOrganized

\* ------------------------------ src/youtube_handler.py: download_youtube_video
\* download_youtube_video(video_id, max_retries): no attempt is made without a
\* video id, without yt-dlp, or when the loop has no turn to take; makedirs on
\* the download directory may raise
DownloadYoutubeVideo ==
    /\ dl_pc = "idle"
    /\ \E n \in 0..MaxRetries : max_retries' = n
    /\ \E before_loop \in {"no video_id", "makedirs raises", "no yt-dlp", "ready"} :
         IF before_loop = "makedirs raises"
         THEN dl_pc' = "done" /\ dl_result' = Raised
         ELSE IF before_loop # "ready" \/ max_retries' = 0
         THEN dl_pc' = "done" /\ dl_result' = ReturnedNone
         ELSE dl_pc' = "attempt" /\ UNCHANGED dl_result
    /\ attempt' = 1
    /\ dl_log' = << >>
    /\ UNCHANGED <<pipeline_vars, main_vars, clip_vars, yt_vars, org_vars>>

\* a loop that goes on after its last attempt has failed
DownloadAttemptOneMore ==
    /\ dl_pc = "attempt"
    /\ \E outcome \in {"info failed", "unexpected format", "download failed",
                        "exception", "downloaded"} :
         /\ dl_log' = Append(dl_log, outcome)
         /\ IF outcome = "downloaded"
            THEN /\ dl_result' = [status |-> "ok", attempt |-> attempt]
                 /\ dl_pc' = "done"
                 /\ UNCHANGED attempt
            ELSE IF attempt <= max_retries
            THEN /\ attempt' = attempt + 1
                 /\ UNCHANGED <<dl_pc, dl_result>>
            ELSE /\ dl_result' = ReturnedNone
                 /\ dl_pc' = "done"
                 /\ UNCHANGED attempt
    /\ UNCHANGED max_retries
    /\ UNCHANGED <<pipeline_vars, main_vars, clip_vars, yt_vars, org_vars>>

\* one turn of the loop: the info command, the download, and what follows a
\* failure (if attempt < max_retries: sleep, continue; else return None)
DownloadAttempt ==
    /\ dl_pc = "attempt"
    /\ \E outcome \in {"info failed", "unexpected format", "download failed",
                        "exception", "downloaded"} :
         /\ dl_log' = Append(dl_log, outcome)
         /\ IF outcome = "downloaded"
            THEN /\ dl_result' = [status |-> "ok", attempt |-> attempt]
                 /\ dl_pc' = "done"
                 /\ UNCHANGED attempt
            ELSE IF attempt < max_retries
            THEN /\ attempt' = attempt + 1
                 /\ UNCHANGED <<dl_pc, dl_result>>
            ELSE /\ dl_result' = ReturnedNone
                 /\ dl_pc' = "done"
                 /\ UNCHANGED attempt
    /\ UNCHANGED max_retries
    /\ UNCHANGED <<pipeline_vars, main_vars, clip_vars, yt_vars, org_vars>>

NextDownload ==
    \/ DownloadYoutubeVideo
    \/ DownloadAttempt

\* ------------------------------------------------------- specifications
Init ==
    /\ PipelineIdle
    /\ MainIdle
    /\ ClipsIdle
    /\ TranscriptIdle
    /\ org_pc = "idle"
    /\ org_args = [base_exists |-> FALSE, segment_platforms |-> << >>]
    /\ org_env = [makedirs_ok |-> TRUE, symlink_ok |-> TRUE, copy2 |-> "ok"]
    /\ platform_dirs = {}
    /\ placed = [p \in {"TikTok", "YouTube_Shorts", "Instagram_Reels", "Snapchat"}
                   |-> "nothing"]
    /\ org_index = 1
    /\ organized_paths = << >>
    /\ org_made = 0
    /\ org_returns = << >>
    /\ dl_pc = "idle"
    /\ max_retries = 0
    /\ attempt = 1
    /\ dl_log = << >>
    /\ dl_result = Pending

Next ==
    \/ AnalyzeEmptyTranscript
    \/ CallFails
    \/ ReceiveResponse
    \/ ExtractContent
    \/ CleanContent
    \/ DecodeJson
    \/ FallbackParse
    \/ CheckResponse
    \/ Validate
    \/ SalvageSegments
    \/ RunAgain
    \/ RunBare

Spec == Init /\ [][Next]_vars
SpecMain == Init /\ [][NextMain]_vars
SpecClips == Init /\ [][NextClips]_vars
SpecTranscript == Init /\ [][NextTranscript]_vars
SpecOrganize == Init /\ [][NextOrganize]_vars
\* a call runs to its end: each yt-dlp run is taken to return
SpecDownload == Init /\ [][NextDownload]_vars /\ WF_vars(NextDownload)

\* ----------------------------------------------------------------- claims
Done == pc = "done"
Failed == result = ReturnedNone
Succeeded == result.status = "ok"
AfterCall == pc \in {"check", "validate", "salvage", "done"}

\* the envelope shapes that carry no content
NoChoices(env) == IsObj(env) /\ "choices" \notin DOMAIN env.obj
EmptyChoices(env) ==
    /\ IsObj(env) /\ "choices" \in DOMAIN env.obj
    /\ env.obj["choices"] = Lst(<< >>)
FirstChoiceNoContent(env) ==
    /\ IsObj(env) /\ "choices" \in DOMAIN env.obj
    /\ IsList(env.obj["choices"]) /\ Len(env.obj["choices"].list) > 0
    /\ LET c == env.obj["choices"].list[1] IN
       /\ IsObj(c)
       /\ \/ "message" \notin DOMAIN c.obj
          \/ /\ IsObj(c.obj["message"])
             /\ "content" \notin DOMAIN c.obj["message"].obj
EnvelopeError(env) ==
    NoChoices(env) \/ EmptyChoices(env) \/ FirstChoiceNoContent(env)

\* C1: an envelope without choices, with an empty choices list or whose first
\* choice has no message.content makes call_openrouter_api return None, and
\* neither json.loads nor parse_ai_text_response is called for it.
C1_EnvelopeErrorFails ==
    (pc # "extract" /\ EnvelopeError(response_data)) =>
        /\ pc \in {"check", "done"}
        /\ api_response_data = Null
        /\ json_loads_calls = 0
        /\ fallback_calls = << >>
        /\ (Done => Failed)

C1_Witness == Done /\ FirstChoiceNoContent(response_data) /\ Failed

\* the content was classified as free text
FreeText ==
    /\ ~FenceFound(actual_content_string)
    /\ ~LooksLikeJson(Strip(actual_content_string))
\* json.loads was called on the working text and raised
DecodeFailed == json_loads_calls = 1 /\ ~JsonLoadsOk(content_to_parse)
\* json.loads was called on the working text and returned
Decoded == json_loads_calls = 1 /\ JsonLoadsOk(content_to_parse)

\* C2: for free-text content, and for a working text json.loads rejects, the
\* fallback parser is called on the original content string (not the working
\* text) and the call returns the parser's result to analyze_transcript.
C2_FallbackOnOriginal ==
    (AfterCall /\ actual_content_string # << >> /\ (FreeText \/ DecodeFailed)) =>
        /\ fallback_calls = <<actual_content_string>>
        /\ api_response_data = parse_ai_text_response(actual_content_string)

C2_Witness ==
    /\ Done /\ DecodeFailed /\ Succeeded
    /\ content_to_parse # actual_content_string

\* the decoded document and, when it has one, its 'segments' list
Doc == JsonLoads(content_to_parse)
StructureError(d) ==
    ~(IsObj(d) /\ "segments" \in DOMAIN d.obj /\ IsList(d.obj["segments"]))
DecodedList == Decoded /\ ~StructureError(Doc)
Cands == Doc.obj["segments"].list
Segs == result.transcript.segments

FieldTyped(c, k) ==
    IF k \in {"start_time", "end_time", "duration"} THEN FloatOk(c.obj[k])
    ELSE IF k \in {"yt_title", "hook", "description"} THEN "str" \in DOMAIN c.obj[k]
    ELSE /\ IsList(c.obj[k])
         /\ \A i \in 1..Len(c.obj[k].list) : "str" \in DOMAIN c.obj[k].list[i]
WellTyped(c) == IsObj(c) /\ \A k \in DOMAIN c.obj : FieldTyped(c, k)
Has(c, fields) == IsObj(c) /\ fields \subseteq DOMAIN c.obj
SixFields == {"start_time", "end_time", "duration", "yt_title", "hook", "description"}
FiveFields == SixFields \ {"duration"}
Acceptable(c) == Has(c, SixFields) /\ WellTyped(c)
RECURSIVE Accepted(_)
Accepted(cs) ==
    IF cs = << >> THEN << >>
    ELSE (IF Acceptable(Head(cs)) THEN <<MkSegment(Head(cs))>> ELSE << >>)
         \o Accepted(Tail(cs))

\* C4: a batch with exactly one candidate that lacks a required field or fails
\* type validation yields exactly the other candidates, in input order.
C4_BatchIsolation ==
    (Done /\ DecodedList /\ Len(Cands) >= 2
          /\ Cardinality({i \in 1..Len(Cands) : ~Acceptable(Cands[i])}) = 1) =>
        result = Returned([segments |-> Accepted(Cands)])

C4_Witness ==
    /\ Done /\ DecodedList /\ Len(Cands) = 3
    /\ Acceptable(Cands[1]) /\ ~Acceptable(Cands[2]) /\ Acceptable(Cands[3])
    /\ Cands[1] # Cands[3]
    /\ Succeeded /\ Segs = <<MkSegment(Cands[1]), MkSegment(Cands[3])>>

InRange(c) == ToFloat(c.obj["end_time"]) > ToFloat(c.obj["start_time"])

C6_RangeInvariant ==
    (Done /\ Succeeded) =>
        \A i \in 1..Len(Segs) : Segs[i].end_time > Segs[i].start_time

Abs(x) == IF x < 0 THEN -x ELSE x

\* C7: every returned segment has duration = end_time - start_time within
\* half a second (read here for the segments with end_time > start_time, so
\* that a violation does not rest on the range check of C6).
C7_DurationConsistent ==
    (Done /\ Succeeded) =>
        \A i \in 1..Len(Segs) :
            Segs[i].end_time > Segs[i].start_time =>
                2 * Abs(Segs[i].duration - (Segs[i].end_time - Segs[i].start_time)) <= 1

\* C8: no returned segment has an empty platforms list; a candidate without
\* platforms, or with an empty list, gets the full supported set.
C8_PlatformsDefaulted ==
    (Done /\ Succeeded) =>
        /\ \A i \in 1..Len(Segs) : Segs[i].platforms # << >>
        /\ (DecodedList /\ Len(Segs) = Len(Cands)) =>
              \A i \in 1..Len(Cands) :
                 ("platforms" \notin DOMAIN Cands[i].obj
                    \/ Cands[i].obj["platforms"] = Lst(<< >>)) =>
                        Segs[i].platforms = SupportedPlatforms

AllRejected == Len(Cands) >= 1 /\ \A i \in 1..Len(Cands) : ~Acceptable(Cands[i])

C10_SuccessNonEmpty == (Done /\ Succeeded) => Len(Segs) >= 1

\* both tiers of main.py's parser come back empty
NoCandidates(ls) ==
    MainRegexMatches(ls) = << >> /\ parse_segments_manually(ls) = << >>

\* C11: when neither the regex tier nor the line-by-line tier extracts a
\* candidate, the text-fallback parser reports zero segments; it never returns
\* a synthesized placeholder segment.
C11_NoPlaceholder ==
    (main_pc = "done" /\ main_text # << >> /\ NoCandidates(main_text)) =>
        main_result.obj["segments"].list = << >>

\* the document of the second, unfenced answer
BareDoc == actual_content_string[1].v

\* C12 as claimed: for any JSON text, the fenced content (with or without the
\* json tag) and the bare content give the same pipeline result (read for the
\* invocations that return, so that a violation does not rest on an exception
\* escaping analyze_transcript).
C12_FenceEquivalence ==
    (Done /\ run = "bare" /\ result # Raised /\ first_run.result # Raised) =>
        result = first_run.result

\* C12 (amended): for a JSON object or array, the fenced content and the bare
\* content give the same result and the same rejected candidates.
C12_FenceEquivalenceContainers ==
    (Done /\ run = "bare" /\ (IsObj(BareDoc) \/ IsList(BareDoc))) =>
        /\ result = first_run.result
        /\ Rejected(api_response_data) = first_run.rejected

C12_Witness ==
    /\ Done /\ run = "bare" /\ IsObj(BareDoc)
    /\ Succeeded /\ result = first_run.result /\ first_run.rejected # {}

\* C13: generate_all_clips leaves the caller's list and its dicts as they
\* were given, in every branch; what it returns is never that list.
C13_InputsUnchanged ==
    clip_pc = "done" =>
        /\ segments_data = given_segments
        /\ ~clips_result.is_input

Priority(s) ==
    IF s.lang \in Range(EnglishCodes) /\ ~s.translated
    THEN (IF s.generated THEN 2 ELSE 1)
    ELSE (IF s.generated THEN 4 ELSE 3)

\* the sources of a video that yield a transcript
Yielding(v) ==
    {Source(t, FALSE) : t \in {u \in DOMAIN v :
        u.lang \in Range(EnglishCodes) /\ v[u].fetch = "ok"}}
    \cup {Source(t, TRUE) : t \in {u \in DOMAIN v :
        u.lang \notin Range(EnglishCodes) /\ v[u].is_translatable /\ v[u].fetch = "ok"}}

\* every listed transcript of the video can be fetched, or raises
NoEmptyFetch(v) == \A t \in DOMAIN v : v[t].fetch # "empty"

\* C15: the sources are consulted in the order English manual, English
\* auto-generated, other manual translated, other auto-generated translated,
\* and the source returned is the first in that order that yields a
\* transcript (read for videos whose fetches return a non-empty transcript or
\* raise).
C15_PriorityOrder ==
    (yt_pc = "done" /\ NoEmptyFetch(transcript_list)) =>
        /\ \A i, j \in 1..Len(consulted) :
              i < j => Priority(consulted[i]) <= Priority(consulted[j])
        /\ \A s \in Yielding(transcript_list) :
              /\ transcript_result.data = "ok"
              /\ Priority(transcript_result.source) <= Priority(s)

\* the text of the fallback call of this invocation
FallbackText == fallback_calls[1]
\* the candidates the fallback parser handed back
FallbackCands ==
    IF IsObj(api_response_data) /\ "segments" \in DOMAIN api_response_data.obj
    THEN api_response_data.obj["segments"].list ELSE << >>
ParserTiers == SelectSeq(tier_log, LAMBDA x : x # "json")

\* C16: the line-by-line tier runs if and only if the regex tier produced no
\* candidate, and after it; when the regex tier produced candidates the
\* result holds exactly those.
C16_TiersInOrder ==
    fallback_calls # << >> =>
        /\ ParserTiers \in {<<"regex">>, <<"regex", "manual">>}
        /\ ("manual" \in Range(tier_log)) <=> (RegexTierSegments(FallbackText) = << >>)
        /\ RegexTierSegments(FallbackText) # << >> =>
              FallbackCands = RegexTierSegments(FallbackText)

C16_Witness ==
    /\ Done /\ Succeeded /\ tier_log = <<"regex">>
    /\ Len(FallbackCands) = 2

Count(q, x) == Cardinality({i \in 1..Len(q) : q[i] = x})

\* C17: within one invocation json.loads runs at most once and each tier of
\* the fallback parser at most once.
C17_EachTierOnce ==
    /\ json_loads_calls <= 1
    /\ Len(fallback_calls) <= 1
    /\ \A tier \in {"json", "regex", "manual"} : Count(tier_log, tier) <= 1

C17_Witness == Done /\ tier_log = <<"json", "regex", "manual">>

\* positional weights counted from the last group
FromLast(g) ==
    IF Len(g) = 2 THEN 60 * g[1] + g[2]
    ELSE 3600 * g[1] + 60 * g[2] + g[3]

\* the matches of the pattern whose candidate was emitted
Emitting(ls) ==
    SelectSeq(RegexMatches(ls, 1),
              LAMBDA i : ~(RegexTimeRaises(ls[i + 2]) \/ RegexTimeRaises(ls[i + 3])))

\* C18: a colon-delimited time of a regex-tier candidate is 60*M + S for M:S
\* and 3600*H + 60*M + S for H:M:S.
C18_PositionalWeight ==
    (fallback_calls # << >> /\ RegexTierSegments(FallbackText) # << >>) =>
        \A k \in 1..Len(FallbackCands) :
            LET i == Emitting(FallbackText)[k]
                start == FallbackText[i + 2]
                end == FallbackText[i + 3]
            IN /\ Len(start.g) \in {2, 3} =>
                     FallbackCands[k].obj["start_time"] = Num(FromLast(start.g))
               /\ Len(end.g) \in {2, 3} =>
                     FallbackCands[k].obj["end_time"] = Num(FromLast(end.g))

\* C19: a match whose start or end time has a group that is not purely digits
\* produces no candidate.
C19_NonDigitGroupDiscards ==
    fallback_calls # << >> =>
        \A i \in Range(RegexMatches(FallbackText, 1)) :
            (CapturedHasS(FallbackText[i + 2]) \/ CapturedHasS(FallbackText[i + 3])) =>
                \A k \in 1..Len(FallbackCands) :
                    FallbackCands[k] # RegexCandidate(FallbackText, i)

\* the blocks of a text: each runs from a boundary line to the next one
BoundaryAt(ls) == {i \in 1..Len(ls) : ls[i].t = "boundary"}
BlockFrom(ls, i) ==
    LET later == {j \in BoundaryAt(ls) : j > i}
    IN SubSeq(ls, i, IF later = {} THEN Len(ls) ELSE Min(later) - 1)
\* the values written in a block
ValuesOf(b) ==
    {Str(b[i].s) : i \in {j \in 1..Len(b) : b[j].t = "kv"}}
    \cup {Str(b[i].title) : i \in {j \in 1..Len(b) : b[j].t = "boundary"}}
    \cup {Num(b[i].g[1]) : i \in {j \in 1..Len(b) : b[j].t = "time" /\ b[j].g # << >>}}
HasLine(b, t, keys) ==
    \E i \in 1..Len(b) : b[i].t = t /\ b[i].key \in keys
\* the block carries a title, a start, an end, a hook and a description
BlockComplete(b) ==
    /\ b[1].title # "" \/ HasLine(b, "kv", {"Title"})
    /\ \E i \in 1..Len(b) :
          b[i].t = "time" /\ b[i].key \in {"Start", "Start Time"} /\ b[i].g # << >>
    /\ \E i \in 1..Len(b) :
          b[i].t = "time" /\ b[i].key \in {"End"} /\ b[i].g # << >>
    /\ HasLine(b, "kv", {"Hook"})
    /\ HasLine(b, "kv", {"Description"})
\* boundary-marked blocks from the first line on, each with all the fields
AllBlocksComplete(ls) ==
    /\ ls # << >> /\ ls[1].t = "boundary"
    /\ \A i \in BoundaryAt(ls) : BlockComplete(BlockFrom(ls, i))
\* the boundary lines in input order
RECURSIVE Sorted(_)
Sorted(S) == IF S = {} THEN << >> ELSE <<Min(S)>> \o Sorted(S \ {Min(S)})

\* C20: the line-by-line parser turns a text of k boundary-marked blocks, each
\* carrying all required fields, into k candidates in input order, each made
\* of the values of its own block.
C20_OneCandidatePerBlock ==
    (fallback_calls # << >> /\ ManualTierRuns(FallbackText)
        /\ AllBlocksComplete(FallbackText)) =>
        LET at == Sorted(BoundaryAt(FallbackText)) IN
        /\ Len(FallbackCands) = Len(at)
        /\ \A k \in 1..Len(at) :
              \A key \in {"yt_title", "start_time", "end_time", "hook", "description"} :
                 FallbackCands[k].obj[key] \in ValuesOf(BlockFrom(FallbackText, at[k]))

\* a line the line-by-line parser cannot parse: no colon, an unknown key, or a
\* numeric field without a number
FailsToParse(l) ==
    \/ l.t = "free"
    \/ l.t = "kv" /\ NormKey(l.key) = "other" /\ ~StartsSegment(l)
    \/ l.t = "time" /\ l.g = << >>

\* accumulator and candidate list after the first n lines of the scan
ScanTo(ls, n) == ManualScan([segs |-> << >>, cur |-> EmptyDict], SubSeq(ls, 1, n))

C22_DurationAsWritten ==
    (fallback_calls # << >> /\ ManualTierRuns(FallbackText)
        /\ BoundaryAt(FallbackText) = {1} /\ Len(FallbackCands) = 1) =>
        \A n \in 1..Len(FallbackText) :
            FallbackText[n].t = "dur" =>
                FallbackCands[1].obj["duration"] = Num(FallbackText[n].n)

\* C23: a text without a hook line or without a description line never ends
\* in a validated segment, whichever tier of the fallback parser matched it.
C23_TextRequiresHookAndDescription ==
    (Done /\ fallback_calls # << >>
        /\ \/ ~HasLine(FallbackText, "kv", {"Hook"})
           \/ ~HasLine(FallbackText, "kv", {"Description"})) =>
        ~Succeeded

\* the candidates that went through validation
Validated == api_response_data.obj["segments"].list

\* C24: of a candidate list that goes through validation every candidate is
\* either among the returned segments or has a warning logged for it: the
\* returned segments and the logged rejects add up to the candidates.
C24_NothingDroppedSilently ==
    (Done /\ ~StructureError(api_response_data)) =>
        /\ Len(ReturnedSegments(result)) + Len(reject_log) = Len(Validated)
        /\ \A i \in 1..Len(Validated) :
              ~SegmentValid(Validated[i]) =>
                  \E k \in 1..Len(reject_log) :
                      reject_log[k].candidate = Validated[i]

C24_Witness ==
    /\ Done /\ ~StructureError(api_response_data) /\ Len(Validated) = 3
    /\ Len(ReturnedSegments(result)) = 1
    /\ Len(reject_log) = 2 /\ reject_log[1].warning # reject_log[2].warning

\* C25: over any sequence of calls of check_ffmpeg_installed, generate_clip
\* and generate_all_clips the probe runs at most once, and every call of
\* check_ffmpeg_installed after the first returns the cached flag unprobed.
C25_ProbeCached ==
    /\ Cardinality({k \in 1..Len(ffmpeg_log) : ffmpeg_log[k].probed}) <= 1
    /\ \A k \in 2..Len(ffmpeg_log) :
          /\ ~ffmpeg_log[k].probed
          /\ ffmpeg_log[k].returned = ffmpeg_log[k].cached

C25_Witness ==
    /\ Len(ffmpeg_log) = 2
    /\ ffmpeg_log[1].probed /\ ffmpeg_log[1].returned
    /\ ~ffmpeg_log[2].probed /\ ~ffmpeg_log[2].returned

\* the two annotations of a returned entry
ClipStatus(d) == d["clip_generation_status"]
ClipPathOf(d) == d["output_clip_path"]

\* C30: for a non-empty input generate_all_clips returns a list as long as
\* the input and in its order, every entry carrying both annotations, with
\* the status success exactly when the path is not None; a failed clip does
\* not stop the segments after it from being processed.
C30_EveryEntryAnnotated ==
    (clip_pc = "done" /\ given_segments # << >>) =>
        LET out == clips_result.value IN
        /\ Len(out) = Len(given_segments)
        /\ \A i \in 1..Len(out) :
              /\ {"output_clip_path", "clip_generation_status"} \subseteq DOMAIN out[i]
              /\ [k \in DOMAIN given_segments[i] |-> out[i][k]] = given_segments[i]
              /\ (ClipStatus(out[i]) = Str("success")) <=> ~IsNull(ClipPathOf(out[i]))

C30_Witness ==
    /\ clip_pc = "done" /\ Len(given_segments) = 2
    /\ given_segments[1] # given_segments[2]
    /\ Len(clips_result.value) = 2
    /\ ClipStatus(clips_result.value[1]) = Str("failed")
    /\ ClipStatus(clips_result.value[2]) = Str("success")
    /\ ClipPathOf(clips_result.value[2]) = [path |-> 2]

\* C27: analyze_transcript returns a VideoTranscript or None for every
\* payload the decoder can hand it; no exception escapes to the caller.
C27_NoExceptionEscapes == Done => result # Raised

\* C29: a source description is returned only with a non-empty transcript
\* (an English source that standardizes to an empty list does not end the
\* search), and (None, None) only when no source yields an entry.
C29_NonEmptyOrNone ==
    yt_pc = "done" =>
        /\ ~IsNull(transcript_result.source) => transcript_result.data = "ok"
        /\ transcript_result.data = "none" => Yielding(transcript_list) = {}

\* C26: for an existing base clip every later call of
\* organize_clip_for_platforms with the same arguments returns the list the
\* first call returned and makes no symlink and no copy.
C26_Idempotent ==
    org_args.base_exists =>
        \A k \in 2..Len(org_returns) :
            org_returns[k] = [paths |-> org_returns[1].paths, made |-> 0]

\* What does hold: once the first call has placed the clip for every target
\* platform, every later call with the same arguments returns the same list
\* and makes no symlink and no copy; an empty platform list stands for the
\* supported platforms.
OrganizedOnceStaysOrganized ==
    (org_returns # << >> /\ Len(org_returns[1].paths) = Len(target_platforms)) =>
        /\ \A k \in 2..Len(org_returns) :
              org_returns[k] = [paths |-> org_returns[1].paths, made |-> 0]
        /\ org_args.segment_platforms = << >> =>
              org_returns[1].paths = SupportedPlatforms

\* C28: download_youtube_video makes at most max_retries attempts; it returns
\* at the first attempt that succeeds, goes on to attempt k+1 after a failed
\* attempt k < max_retries, returns None after the failed attempt number
\* max_retries, and every call that entered the loop returns.
C28_TerminatesWithinRetries ==
    /\ [](/\ Len(dl_log) <= max_retries
          /\ \A k \in 1..(Len(dl_log) - 1) : dl_log[k] # "downloaded"
          /\ dl_pc = "attempt" => (attempt = Len(dl_log) + 1 /\ attempt <= max_retries)
          /\ (dl_pc = "done" /\ dl_log # << >>) =>
                IF dl_log[Len(dl_log)] = "downloaded"
                THEN dl_result = [status |-> "ok", attempt |-> Len(dl_log)]
                ELSE dl_result = ReturnedNone /\ Len(dl_log) = max_retries)
    /\ (dl_pc = "attempt") ~> (dl_pc = "done")

C28_Witness ==
    /\ dl_pc = "done" /\ max_retries = 3
    /\ dl_log = <<"info failed", "download failed", "downloaded">>
    /\ dl_result = [status |-> "ok", attempt |-> 3]

====
